---- MODULE Spec2Model ----
(***************************************************************************)
(* The scheduler/runner of rhylthyme-cli-runner (program_runner.py) as a   *)
(* state machine.                                                          *)
(*                                                                         *)
(* Numbers.  Python floats are kept as fixed-point integers:               *)
(*   - task shares and actor amounts in quarters (One = 1.0);              *)
(*   - program time (current_time, start/end times, durations) in units of *)
(*     0.05 s, so the 0.1 s "near zero" threshold is 2 units;              *)
(*   - time_scale in multiples of its lower clamp; the wall clock in units *)
(*     such that one wall unit at time_scale 1 is one program-time unit.   *)
(* An Enum member of the source is an upper-case string ("FIXED"); the     *)
(* source compares some of them with lower-case str literals ("fixed"),    *)
(* which is False in Python and FALSE here.                                *)
(***************************************************************************)
EXTENDS Integers, Sequences, FiniteSets, TLC

VARIABLES
    program,              \* self.program: the document the runner was built from
    runner,               \* the fields __init__ sets and nothing changes afterwards
    auto_start,           \* self.auto_start
    started,              \* main_loop has called runner.start()
    time_scale,           \* self.time_scale
    wall,                 \* time.time(), relative to construction
    is_running,           \* self.is_running
    program_start_time,   \* self.program_start_time (None or a time)
    current_time,         \* self.current_time
    status,               \* Step.status of every Step object
    start_time,           \* Step.start_time
    end_time,             \* Step.end_time
    expected_end_time,    \* Step.expected_end_time
    resource_usage,       \* self.resource_usage
    actor_usage_by_type,  \* self.actor_usage_by_type
    command_queue,        \* self.command_queue
    crashed,              \* an exception left update(): main_loop has ended
    code_runs,            \* executions of each Step object's code block so far
    processed,            \* history: the commands of the last update() that named no step or trigger
    charged,              \* history: required_actors_by_type of each object's admission
    attempts,             \* history: the admission attempts of the last update()
    logic_errors,         \* what perform_additional_validations returned for the program (None before)
    optimized_program     \* what plan_program made of the program (None before)

vars ==
    << program, runner, auto_start, started, time_scale, wall, is_running,
       program_start_time, current_time, status, start_time, end_time,
       expected_end_time, resource_usage, actor_usage_by_type, command_queue,
       crashed, code_runs, processed, charged, attempts, logic_errors, optimized_program >>

----------------------------------------------------------------------------
(* Bounds of the model *)

MaxWall ==
    5

MaxDelta ==
    1

MaxScale ==
    2

MaxQueue ==
    1

\* The run of the linear two-step program: wall-clock units, and the largest
\* number of them between two calls of update().
MaxWallSeq ==
    170

MaxDeltaSeq ==
    2

----------------------------------------------------------------------------
(* Units and constants of the source *)

One ==
    4

NearZero ==
    2

IndefiniteExtra ==
    1200

Epsilon ==
    1

MinTimeScale ==
    1

MaxTimeScale ==
    1000

Infinity ==
    1000000

DefaultPriority ==
    100

Absent == 0 - 1

None == << >>

Some(x) == << x >>

Val(o) == o[1]

Max(a, b) == IF a >= b THEN a ELSE b

Min(a, b) == IF a <= b THEN a ELSE b

----------------------------------------------------------------------------
(* Program documents *)

TrigProgramStart ==
    [type |-> "programStart", stepId |-> "", offsetSeconds |-> 0]

TrigManual ==
    [type |-> "manual", stepId |-> "", offsetSeconds |-> 0]

TrigAfterStep(id) ==
    [type |-> "afterStep", stepId |-> id, offsetSeconds |-> 0]

TrigOffset(n) ==
    [type |-> "programStartOffset", stepId |-> "", offsetSeconds |-> n]

\* afterStep with the keys the validator and the planner know: event, offsetSeconds
TrigAfterStepEvent(id, event, n) ==
    [type |-> "afterStep", stepId |-> id, event |-> event, offsetSeconds |-> n]

TrigAfterStepWithBuffer(id, n) ==
    [type |-> "afterStepWithBuffer", stepId |-> id, event |-> "end", bufferSeconds |-> n]

TrigOnAbort(id) ==
    [type |-> "onAbort", stepId |-> id]

\* several triggers with a logic ("all" or "any")
TrigComposite(logic, triggers) ==
    [logic |-> logic, triggers |-> triggers]

DurFixed(n) ==
    [type |-> "fixed", seconds |-> n, minSeconds |-> Absent, maxSeconds |-> Absent,
     defaultSeconds |-> Absent, triggerName |-> ""]

DurVariable(mn, mx, df, trig) ==
    [type |-> "variable", seconds |-> Absent, minSeconds |-> mn, maxSeconds |-> mx,
     defaultSeconds |-> df, triggerName |-> trig]

DurIndefinite(mn, df, trig) ==
    [type |-> "indefinite", seconds |-> Absent, minSeconds |-> mn, maxSeconds |-> Absent,
     defaultSeconds |-> df, triggerName |-> trig]

StepData(id, dur, trig, task, tasks, taskResources) ==
    [stepId |-> id, priority |-> Absent, duration |-> dur, startTrigger |-> trig,
     task |-> task, tasks |-> tasks, taskResources |-> taskResources,
     codeBlock |-> FALSE]

Constraint(task, maxc, req, qualified) ==
    [task |-> task, maxConcurrent |-> maxc, actorsRequired |-> req,
     qualifiedActorTypes |-> qualified]

Track(id, steps) ==
    [trackId |-> id, batch_size |-> 1, stagger |-> 0, steps |-> steps]

\* A track with batch_size and stagger (in units of 0.05 s)
BatchTrack(id, batch_size, stagger, steps) ==
    [trackId |-> id, batch_size |-> batch_size, stagger |-> stagger, steps |-> steps]

\* Environment documents the EnvironmentLoader finds, by environmentId.
Environments ==
    [e \in {"bakery", "duo", "bakehouse"} |->
        IF e = "bakehouse"
        THEN [actorTypes |-> << [id |-> "head-baker", count |-> 1],
                                [id |-> "baker", count |-> 2] >>,
              actors |-> Absent,
              resourceConstraints |->
                << Constraint("baking", 3, One, << "head-baker", "baker" >>) >>]
        ELSE IF e = "bakery"
        THEN [actorTypes |-> << [id |-> "head", count |-> 1], [id |-> "baker", count |-> 2] >>,
              actors |-> Absent,
              resourceConstraints |->
                << Constraint("baking", 2, 2 * One, << "head", "baker" >>),
                   Constraint("prep", 2, One, << "head", "baker" >>) >>]
        ELSE [actorTypes |-> << [id |-> "head", count |-> 1], [id |-> "aide", count |-> 1] >>,
              actors |-> Absent,
              resourceConstraints |->
                << Constraint("a", 1, One, << "head" >>),
                   Constraint("b", 2, One, << "head", "aide" >>),
                   Constraint("c", 1, One, << "head" >>) >>]]

\* Fractional sharing of one task under inline constraints and an actors count.
ProgSharing ==
    [name |-> "sharing", startTrigger |-> "manual", actors |-> 2, environment |-> "",
     resourceConstraints |-> << Constraint("mixing", 1, Absent, << >>) >>,
     tracks |-> <<
        Track("t1", << StepData("X", DurFixed(3), TrigProgramStart, "", << >>,
                                << [name |-> "mixing", fraction |-> 2] >>),
                       StepData("Z", DurFixed(2), TrigProgramStart, "mixing", << >>, << >>) >>),
        Track("t2", << StepData("Y", DurFixed(3), TrigProgramStart, "", << >>,
                                << [name |-> "mixing", fraction |-> 2] >>) >>) >>]

\* Two actor types qualified for both tasks.
ProgActors ==
    [name |-> "actors", startTrigger |-> "programStart", actors |-> Absent,
     environment |-> "bakery", resourceConstraints |-> << >>,
     tracks |-> <<
        Track("t1", << StepData("S", DurFixed(8), TrigProgramStart, "baking", << >>, << >>),
                       StepData("P", DurFixed(2), TrigProgramStart, "baking", << >>, << >>) >>),
        Track("t2", << StepData("X", DurFixed(2), TrigProgramStart, "prep", << >>, << >>) >>) >>]

\* Steps that reserve several tasks in one admission attempt.
ProgMulti ==
    [name |-> "multi", startTrigger |-> "programStart", actors |-> Absent,
     environment |-> "duo", resourceConstraints |-> << >>,
     tracks |-> <<
        Track("t1", << StepData("M", DurFixed(2), TrigProgramStart, "", << "b", "a" >>, << >>),
                       StepData("N", DurFixed(2), TrigProgramStart, "a", << >>, << >>),
                       StepData("R", DurFixed(3), TrigProgramStart, "", << "c", "b" >>, << >>) >>) >>]

\* Manual start, variable and indefinite durations.
ProgManual ==
    [name |-> "manual", startTrigger |-> "manual", actors |-> Absent, environment |-> "",
     resourceConstraints |-> << >>,
     tracks |-> <<
        Track("t1", << StepData("G", DurVariable(2, 8, 4, "go"), TrigManual, "", << >>, << >>),
                       StepData("V", DurVariable(4, 8, 6, "done"), TrigProgramStart, "", << >>, << >>),
                       StepData("I", DurIndefinite(0, 3, "stop"), TrigProgramStart, "", << >>, << >>) >>) >>]

Programs ==
    { ProgSharing, ProgActors, ProgMulti, ProgManual }

\* Three steps that need the whole of one task, with priorities: L is defined
\* first and has the highest number, H and E share the lowest.
ProgPriority ==
    [name |-> "priority", startTrigger |-> "programStart", actors |-> 2, environment |-> "",
     resourceConstraints |-> << Constraint("oven", 1, Absent, << >>) >>,
     tracks |-> <<
        Track("t1", << [StepData("L", DurFixed(2), TrigProgramStart, "oven", << >>, << >>)
                            EXCEPT !.priority = 5],
                       [StepData("H", DurFixed(2), TrigProgramStart, "oven", << >>, << >>)
                            EXCEPT !.priority = 1],
                       [StepData("E", DurFixed(2), TrigProgramStart, "oven", << >>, << >>)
                            EXCEPT !.priority = 1] >>) >>]

\* afterStep triggers with an offset and with the event "start"; A carries a
\* code block.
ProgAfter ==
    [name |-> "after", startTrigger |-> "programStart", actors |-> Absent, environment |-> "",
     resourceConstraints |-> << >>,
     tracks |-> <<
        Track("t1", << [StepData("A", DurFixed(4), TrigProgramStart, "", << >>, << >>)
                            EXCEPT !.codeBlock = TRUE],
                       StepData("B", DurFixed(2), TrigAfterStepEvent("A", "end", 2),
                                "", << >>, << >>),
                       StepData("C", DurFixed(2), TrigAfterStepEvent("A", "start", 0),
                                "", << >>, << >>) >>) >>]

\* afterStepWithBuffer and onAbort triggers.
ProgReact ==
    [name |-> "react", startTrigger |-> "programStart", actors |-> Absent, environment |-> "",
     resourceConstraints |-> << >>,
     tracks |-> <<
        Track("t1", << StepData("A", DurFixed(4), TrigProgramStart, "", << >>, << >>),
                       StepData("D", DurFixed(2), TrigAfterStepWithBuffer("A", 1),
                                "", << >>, << >>),
                       StepData("E", DurFixed(2), TrigOnAbort("A"), "", << >>, << >>) >>) >>]

\* A step with several triggers and the logic "all".
ProgComposite ==
    [name |-> "composite", startTrigger |-> "programStart", actors |-> Absent,
     environment |-> "", resourceConstraints |-> << >>,
     tracks |-> <<
        Track("t1", << StepData("A", DurFixed(2), TrigProgramStart, "", << >>, << >>),
                       StepData("K", DurFixed(2),
                                TrigComposite("all", << TrigProgramStart, TrigOffset(1) >>),
                                "", << >>, << >>) >>) >>]

\* An actors count, no inline constraints and no environment.
ProgFallback ==
    [name |-> "fallback", startTrigger |-> "programStart", actors |-> 2, environment |-> "",
     resourceConstraints |-> << >>,
     tracks |-> <<
        Track("t1", << StepData("F", DurFixed(2), TrigProgramStart, "chop", << >>, << >>),
                       StepData("G", DurFixed(2), TrigProgramStart, "chop", << >>, << >>),
                       StepData("J", DurFixed(2), TrigProgramStart, "chop", << >>, << >>) >>) >>]

\* One task, two qualified actor types of 1 and 2 actors, one actor per step.
ProgTie ==
    [name |-> "tie", startTrigger |-> "programStart", actors |-> Absent,
     environment |-> "bakehouse", resourceConstraints |-> << >>,
     tracks |-> <<
        Track("t1", << StepData("T", DurFixed(4), TrigProgramStart, "baking", << >>, << >>),
                       StepData("U", DurFixed(4), TrigProgramStart, "baking", << >>, << >>),
                       StepData("W", DurFixed(4), TrigProgramStart, "baking", << >>, << >>) >>) >>]

MorePrograms ==
    { ProgPriority, ProgAfter, ProgReact, ProgComposite, ProgFallback, ProgTie }

\* The linear two-step program: A takes 5 s from the program start, B takes
\* 3 s after the end of A (durations in units of 0.05 s).
ProgSeq ==
    [name |-> "linear", startTrigger |-> "programStart", actors |-> Absent,
     environment |-> "", resourceConstraints |-> << >>,
     tracks |-> <<
        Track("T", << StepData("A", DurFixed(100), TrigProgramStart, "", << >>, << >>),
                      StepData("B", DurFixed(60), TrigAfterStepEvent("A", "end", 0),
                               "", << >>, << >>) >>) >>]

\* A program without tasks and without manual triggers: A takes 5 s from the
\* program start, B follows the end of A after 2 s, O starts 2.5 s after the
\* program start (units of 0.05 s).
ProgLag ==
    [name |-> "lag", startTrigger |-> "programStart", actors |-> Absent,
     environment |-> "", resourceConstraints |-> << >>,
     tracks |-> <<
        Track("T", << StepData("A", DurFixed(100), TrigProgramStart, "", << >>, << >>),
                      StepData("B", DurFixed(20), TrigAfterStepEvent("A", "end", 40),
                               "", << >>, << >>) >>),
        Track("U", << StepData("O", DurFixed(20), TrigOffset(50), "", << >>, << >>) >>) >>]

\* A track of two batches, staggered by 2 units, of a programStart step.
ProgBatchStart ==
    [name |-> "batch-start", startTrigger |-> "programStart", actors |-> Absent,
     environment |-> "", resourceConstraints |-> << >>,
     tracks |-> <<
        BatchTrack("b", 2, 2,
                   << StepData("S", DurFixed(1), TrigProgramStart, "", << >>, << >>) >>) >>]

\* A track of three batches, staggered by 2 units, of a step with the trigger
\* programStartOffset 1.
ProgBatchOffset ==
    [name |-> "batch-offset", startTrigger |-> "programStart", actors |-> Absent,
     environment |-> "", resourceConstraints |-> << >>,
     tracks |-> <<
        BatchTrack("b", 3, 2,
                   << StepData("O", DurFixed(1), TrigOffset(1), "", << >>, << >>) >>) >>]

\* Two steps that share the trigger name of their variable durations.
ProgShared ==
    [name |-> "shared", startTrigger |-> "programStart", actors |-> Absent,
     environment |-> "", resourceConstraints |-> << >>,
     tracks |-> <<
        Track("t1", << StepData("P", DurVariable(4, 8, 6, "done"), TrigProgramStart,
                                "", << >>, << >>),
                       StepData("Q", DurVariable(4, 8, 6, "done"), TrigProgramStart,
                                "", << >>, << >>) >>) >>]

\* A track of two batches of two steps, the second of which follows the first.
ProgBatchAfter ==
    [name |-> "batch-after", startTrigger |-> "programStart", actors |-> Absent,
     environment |-> "", resourceConstraints |-> << >>,
     tracks |-> <<
        BatchTrack("b", 2, 2,
                   << StepData("A", DurFixed(1), TrigProgramStart, "", << >>, << >>),
                      StepData("B", DurFixed(1), TrigAfterStep("A"), "", << >>, << >>) >>) >>]

BatchPrograms ==
    { ProgBatchStart, ProgBatchOffset, ProgShared, ProgBatchAfter }

\* Inline constraints for "oven" only: K uses it, D1, D2 and D3 declare a task
\* without constraint by `task`, by `tasks` and by `taskResources`.
ProgUndeclared ==
    [name |-> "undeclared", startTrigger |-> "programStart", actors |-> 2,
     environment |-> "",
     resourceConstraints |-> << Constraint("oven", 1, Absent, << >>) >>,
     tracks |-> <<
        Track("t1", << StepData("K", DurFixed(2), TrigProgramStart, "oven", << >>, << >>),
                       StepData("D1", DurFixed(2), TrigProgramStart, "grill", << >>, << >>),
                       StepData("D2", DurFixed(2), TrigProgramStart, "", << "smoke" >>, << >>),
                       StepData("D3", DurFixed(2), TrigProgramStart, "", << >>,
                                << [name |-> "cure", fraction |-> 2] >>) >>) >>]

AllPrograms ==
    Programs \cup MorePrograms \cup BatchPrograms
        \cup { ProgSeq, ProgLag, ProgUndeclared }

----------------------------------------------------------------------------
(* Step.__init__ *)

\* duration_type, duration_seconds, min_seconds, max_seconds, default_seconds
\* and manual_trigger_name of a step document.
StepDuration(d) ==
    IF d.type = "fixed"
    THEN [duration_type |-> "FIXED", duration_seconds |-> d.seconds,
          min_seconds |-> Absent, max_seconds |-> Absent, default_seconds |-> Absent,
          manual_trigger_name |-> ""]
    ELSE IF d.type = "variable"
    THEN LET mn == IF d.minSeconds = Absent THEN 0 ELSE d.minSeconds
             mx == IF d.maxSeconds = Absent THEN Infinity ELSE d.maxSeconds
             df == IF d.defaultSeconds # Absent THEN d.defaultSeconds
                   ELSE IF mx < Infinity THEN (mn + mx) \div 2
                   ELSE mn + IndefiniteExtra
         IN [duration_type |-> "VARIABLE", duration_seconds |-> Absent,
             min_seconds |-> mn, max_seconds |-> mx, default_seconds |-> df,
             manual_trigger_name |-> d.triggerName]
    ELSE IF d.type = "indefinite" \/ d.type = "manual"
    THEN LET mn == IF d.minSeconds = Absent THEN 0 ELSE d.minSeconds
             df == IF d.defaultSeconds # Absent THEN d.defaultSeconds
                   ELSE mn + IndefiniteExtra
         IN [duration_type |-> "INDEFINITE", duration_seconds |-> Absent,
             min_seconds |-> mn, max_seconds |-> Absent, default_seconds |-> df,
             manual_trigger_name |-> d.triggerName]
    ELSE [duration_type |-> "NONE", duration_seconds |-> Absent,
          min_seconds |-> Absent, max_seconds |-> Absent, default_seconds |-> Absent,
          manual_trigger_name |-> ""]

InSeq(x, seq) == \E i \in DOMAIN seq : seq[i] = x

RECURSIVE AppendNew(_, _)
\* task_types after "if task not in self.task_types: append" over a list of names
AppendNew(types, names) ==
    IF names = << >> THEN types
    ELSE AppendNew(IF InSeq(Head(names), types) THEN types ELSE Append(types, Head(names)),
                   Tail(names))

StepTaskTypes(sd) ==
    LET t1 == IF sd.task # "" THEN << sd.task >> ELSE << >>
        t2 == AppendNew(t1, sd.tasks)
    IN AppendNew(t2, [i \in DOMAIN sd.taskResources |-> sd.taskResources[i].name])

\* task_fractions[task]; the last taskResources entry of a name wins, and a
\* name that `task` or `tasks` gave has 1.0 unless taskResources names it too.
StepTaskFraction(sd, task) ==
    LET idx == { i \in DOMAIN sd.taskResources : sd.taskResources[i].name = task }
    IN IF idx # {}
       THEN sd.taskResources[CHOOSE i \in idx : \A j \in idx : j <= i].fraction
       ELSE One

\* "logic" in start_trigger_data and "triggers" in start_trigger_data
IsMultiTrigger(start_trigger_data) ==
    {"logic", "triggers"} \subseteq DOMAIN start_trigger_data

StepInit(sd, track_id, batch_index) ==
    LET d == StepDuration(sd.duration)
        types == StepTaskTypes(sd)
    IN [step_id |-> sd.stepId,
        track_id |-> track_id,
        batch_index |-> batch_index,
        priority |-> IF sd.priority = Absent THEN DefaultPriority ELSE sd.priority,
        duration_type |-> d.duration_type,
        duration_seconds |-> d.duration_seconds,
        min_seconds |-> d.min_seconds,
        max_seconds |-> d.max_seconds,
        default_seconds |-> d.default_seconds,
        manual_trigger_name |-> d.manual_trigger_name,
        start_trigger_logic |-> IF IsMultiTrigger(sd.startTrigger)
                                THEN Some(sd.startTrigger.logic) ELSE None,
        start_triggers |-> IF IsMultiTrigger(sd.startTrigger)
                           THEN Some(sd.startTrigger.triggers) ELSE None,
        start_trigger |-> IF IsMultiTrigger(sd.startTrigger)
                          THEN None ELSE Some(sd.startTrigger),
        task_types |-> types,
        task_fractions |-> [i \in DOMAIN types |-> StepTaskFraction(sd, types[i])],
        has_code |-> sd.codeBlock]

has_manual_trigger(o) ==
    IF o.start_triggers # None
    THEN \E k \in DOMAIN Val(o.start_triggers) : Val(o.start_triggers)[k].type = "manual"
    ELSE IF o.start_trigger # None THEN Val(o.start_trigger).type = "manual"
    ELSE FALSE

----------------------------------------------------------------------------
(* environment_loader.py *)

\* EnvironmentLoader.get_environment: the document, or None when no file
\* carries the id.
get_environment(environment_id) ==
    IF environment_id \in DOMAIN Environments
    THEN Some(Environments[environment_id])
    ELSE None

TasksOf(constraints) == { constraints[i].task : i \in DOMAIN constraints }

\* The entry a dict built from the list keeps for the task: the last one.
LastFor(constraints, task) ==
    constraints[CHOOSE i \in DOMAIN constraints :
                    /\ constraints[i].task = task
                    /\ \A j \in DOMAIN constraints : constraints[j].task = task => j <= i]

\* EnvironmentLoader.merge_constraints: the environment's constraints, each
\* replaced by the program's constraint of the same task, then the program's
\* remaining constraints.
merge_constraints(program_constraints, environment_id) ==
    IF environment_id = "" \/ get_environment(environment_id) = None
    THEN program_constraints
    ELSE LET env == Val(get_environment(environment_id)).resourceConstraints
             overridden ==
                [i \in DOMAIN env |->
                    IF env[i].task \in TasksOf(program_constraints)
                    THEN LastFor(program_constraints, env[i].task)
                    ELSE env[i]]
             rest == SelectSeq(program_constraints,
                               LAMBDA c : c.task \notin TasksOf(env))
         IN overridden \o rest

load_resource_constraints(p) ==
    merge_constraints(p.resourceConstraints, p.environment)

----------------------------------------------------------------------------
(* ProgramRunner.__init__ *)

\* batch_suffix
BatchSuffix(track, batch_index) ==
    IF track.batch_size > 1 THEN "_" \o ToString(batch_index + 1) ELSE ""

\* The startTrigger dict of a step document once __init__ has returned.
\* step_data.copy() is a shallow copy: the loop over the batches writes
\* offsetSeconds and stepId into the dict of the document itself, which every
\* Step object made from the document holds. Each batch after the first adds
\* stagger * batch_index to the offset the batch before left; the first batch
\* puts its suffix on an afterStep reference to a step of the same track, and
\* the later batches no longer find the suffixed id in the track.
SharedTrigger(track, sd) ==
    IF IsMultiTrigger(sd.startTrigger) THEN sd.startTrigger
    ELSE IF /\ track.batch_size > 1 /\ track.stagger > 0
            /\ sd.startTrigger.type = "programStartOffset"
    THEN [sd.startTrigger EXCEPT
            !.offsetSeconds = @ + track.stagger
                                    * ((track.batch_size * (track.batch_size - 1)) \div 2)]
    ELSE IF /\ track.batch_size > 1
            /\ sd.startTrigger.type = "afterStep"
            /\ \E k \in DOMAIN track.steps : track.steps[k].stepId = sd.startTrigger.stepId
    THEN [sd.startTrigger EXCEPT !.stepId = @ \o BatchSuffix(track, 0)]
    ELSE sd.startTrigger

\* The startTrigger of the step_data_copy of one batch: a new dict for a
\* programStart step of a staggered batch after the first, the shared dict
\* otherwise.
BatchTrigger(track, sd, batch_index) ==
    IF /\ track.batch_size > 1 /\ batch_index > 0 /\ track.stagger > 0
       /\ ~IsMultiTrigger(sd.startTrigger)
       /\ sd.startTrigger.type = "programStart"
    THEN [type |-> "programStartOffset", offsetSeconds |-> track.stagger * batch_index]
    ELSE SharedTrigger(track, sd)

RECURSIVE FlattenTracks(_)
\* The step documents of all tracks in document order, each with its track.
FlattenTracks(tracks) ==
    IF tracks = << >> THEN << >>
    ELSE [i \in DOMAIN Head(tracks).steps |->
            [data |-> [Head(tracks).steps[i] EXCEPT
                            !.startTrigger = SharedTrigger(Head(tracks), Head(tracks).steps[i])],
             track_id |-> Head(tracks).trackId]]
         \o FlattenTracks(Tail(tracks))

\* The instances the loop "Initialize steps" makes of one track: for every
\* batch_index every step document, with the key it gets in self.steps.
TrackInstances(track) ==
    [k \in 1..(track.batch_size * Len(track.steps)) |->
        LET batch_index == (k - 1) \div Len(track.steps)
            sd == track.steps[((k - 1) % Len(track.steps)) + 1]
        IN [data |-> [sd EXCEPT !.startTrigger = BatchTrigger(track, sd, batch_index)],
            track_id |-> track.trackId,
            batch_index |-> batch_index,
            suffix |-> BatchSuffix(track, batch_index),
            key |-> sd.stepId \o BatchSuffix(track, batch_index)]]

RECURSIVE Instances(_)
Instances(tracks) ==
    IF tracks = << >> THEN << >>
    ELSE TrackInstances(Head(tracks)) \o Instances(Tail(tracks))

\* self.actors
RunnerActors(p) == Max(1, IF p.actors = Absent THEN 1 ELSE p.actors)

\* used_task_types: the tasks named by a step's `task` key.
UsedTaskTypes(p) ==
    LET sds == FlattenTracks(p.tracks)
    IN { sds[i].data.task : i \in DOMAIN sds } \ { "" }

\* self.resource_constraints: task -> max_concurrent.
RunnerResourceConstraints(p) ==
    LET merged == load_resource_constraints(p)
        inline == p.resourceConstraints
    IN [t \in TasksOf(merged) \cup TasksOf(inline) \cup UsedTaskTypes(p) |->
            IF t \in TasksOf(inline) THEN LastFor(inline, t).maxConcurrent
            ELSE IF t \in TasksOf(merged) THEN LastFor(merged, t).maxConcurrent
            ELSE RunnerActors(p)]

\* self.actor_requirements: task -> actors_required, 1.0 when the constraint
\* gives none.
RunnerActorRequirements(p) ==
    LET merged == load_resource_constraints(p)
    IN [t \in TasksOf(merged) |->
            IF LastFor(merged, t).actorsRequired = Absent THEN One
            ELSE LastFor(merged, t).actorsRequired]

\* TRUE when __init__ replaces an empty qualified list by ["generic"]: without
\* an environment id, or with an environment that has `actors` and no
\* `actorTypes`.
GenericActors(p) ==
    \/ p.environment = ""
    \/ /\ get_environment(p.environment) # None
       /\ Val(get_environment(p.environment)).actorTypes = << >>
       /\ Val(get_environment(p.environment)).actors # Absent

\* self.qualified_actor_types: task -> list of actor type ids.
RunnerQualifiedActorTypes(p) ==
    LET merged == load_resource_constraints(p)
    IN [t \in TasksOf(merged) |->
            IF LastFor(merged, t).qualifiedActorTypes = << >> /\ GenericActors(p)
            THEN << "generic" >>
            ELSE LastFor(merged, t).qualifiedActorTypes]

\* self.actor_types: actor type id -> count.
RunnerActorTypes(p) ==
    IF p.environment # ""
    THEN IF get_environment(p.environment) = None THEN << >>
         ELSE LET env == Val(get_environment(p.environment))
              IN IF env.actorTypes # << >>
                 THEN [a \in { env.actorTypes[i].id : i \in DOMAIN env.actorTypes } |->
                        (CHOOSE e \in { env.actorTypes[i] : i \in DOMAIN env.actorTypes } :
                            e.id = a).count]
                 ELSE IF env.actors # Absent THEN [a \in {"generic"} |-> env.actors]
                 ELSE << >>
    ELSE [a \in {"generic"} |-> IF p.actors = Absent THEN 1 ELSE p.actors]

\* The Step objects __init__ creates, in creation order: one per step document
\* in the loop that parses tracks and steps (lines 715-740), then one per batch
\* and step document in the loop that initializes steps (lines 767-839), which
\* puts the batch suffix on the manual trigger name.
RunnerObjects(p) ==
    LET first == FlattenTracks(p.tracks)
        second == Instances(p.tracks)
    IN [i \in DOMAIN first |-> StepInit(first[i].data, first[i].track_id, 0)]
       \o [i \in DOMAIN second |->
            [StepInit(second[i].data, second[i].track_id, second[i].batch_index)
                EXCEPT !.manual_trigger_name =
                            IF @ = "" THEN @ ELSE @ \o second[i].suffix]]

\* self.steps as the list of its (key, object) items in dict order: the keys
\* of the first loop, each with the object the second loop stored under the
\* same key if it did, then the keys only the second loop created.
RunnerSteps(p) ==
    LET first == FlattenTracks(p.tracks)
        second == Instances(p.tracks)
        firstKeys == { first[i].data.stepId : i \in DOMAIN first }
        last(key) == CHOOSE k \in DOMAIN second :
                        /\ second[k].key = key
                        /\ \A l \in DOMAIN second : second[l].key = key => l <= k
        added == SelectSeq([k \in DOMAIN second |-> k],
                           LAMBDA k : second[k].key \notin firstKeys /\ last(second[k].key) = k)
    IN [i \in DOMAIN first |->
            [key |-> first[i].data.stepId,
             obj |-> IF \E k \in DOMAIN second : second[k].key = first[i].data.stepId
                     THEN Len(first) + last(first[i].data.stepId)
                     ELSE i]]
       \o [i \in DOMAIN added |-> [key |-> second[added[i]].key, obj |-> Len(first) + added[i]]]

\* self.manual_triggers[name]: the objects registered under the name, in
\* registration order (both loops register).
RunnerManualTriggers(p, name) ==
    LET objs == RunnerObjects(p)
    IN SelectSeq([i \in DOMAIN objs |-> i],
                 LAMBDA i : objs[i].manual_trigger_name # ""
                            /\ objs[i].manual_trigger_name = name)

\* The keys of self.manual_triggers.
TriggerNames(p) ==
    { RunnerObjects(p)[i].manual_trigger_name : i \in DOMAIN RunnerObjects(p) } \ { "" }

\* The configuration of the runner of each program document.
Runner ==
    [p \in AllPrograms |->
        [objects |-> RunnerObjects(p),
         steps |-> RunnerSteps(p),
         resource_constraints |-> RunnerResourceConstraints(p),
         actor_requirements |-> RunnerActorRequirements(p),
         qualified_actor_types |-> RunnerQualifiedActorTypes(p),
         actor_types |-> RunnerActorTypes(p),
         manual_triggers |-> [name \in TriggerNames(p) |-> RunnerManualTriggers(p, name)]]]

\* The runner built from the current program document.
Cfg == runner

Objs == Cfg.objects

\* The objects self.steps holds, in dict order.
Live == [i \in DOMAIN Cfg.steps |-> Cfg.steps[i].obj]

LiveSet == { Live[i] : i \in DOMAIN Live }

StepKeys == { Cfg.steps[i].key : i \in DOMAIN Cfg.steps }

\* self.steps[step_id]
StepObj(step_id) ==
    (CHOOSE e \in { Cfg.steps[i] : i \in DOMAIN Cfg.steps } : e.key = step_id).obj

AllTasks == DOMAIN Cfg.resource_constraints

ActorTypeIds == DOMAIN Cfg.actor_types

InitWith(programs) ==
    /\ program \in programs
    /\ runner = Runner[program]
    /\ auto_start \in BOOLEAN
    /\ started = FALSE
    /\ time_scale = MinTimeScale
    /\ wall = 0
    /\ is_running = FALSE
    /\ program_start_time = None
    /\ current_time = 0
    /\ status = [i \in DOMAIN Objs |-> "PENDING"]
    /\ start_time = [i \in DOMAIN Objs |-> None]
    /\ end_time = [i \in DOMAIN Objs |-> None]
    /\ expected_end_time = [i \in DOMAIN Objs |-> None]
    /\ resource_usage = [t \in AllTasks |-> 0]
    /\ actor_usage_by_type = [a \in ActorTypeIds |-> 0]
    /\ command_queue = << >>
    /\ crashed = FALSE
    /\ code_runs = [i \in DOMAIN Objs |-> 0]
    /\ processed = << >>
    /\ logic_errors = None
    /\ optimized_program = None
    /\ charged = [i \in DOMAIN Objs |-> [a \in ActorTypeIds |-> 0]]
    /\ attempts = << >>

Init == InitWith(Programs)

----------------------------------------------------------------------------
(* The mutable state the handlers pass along: a record of the variables they
   write. *)

World ==
    [status |-> status, start_time |-> start_time, end_time |-> end_time,
     expected_end_time |-> expected_end_time, ru |-> resource_usage,
     au |-> actor_usage_by_type, charged |-> charged, attempts |-> attempts,
     is_running |-> is_running, pst |-> program_start_time, ct |-> current_time,
     exc |-> crashed, runs |-> code_runs]

ZeroActors == [a \in DOMAIN Cfg.actor_types |-> 0]

\* step.task_fractions.get(task_type, 1.0) of the k-th task type of an object
Fraction(o, k) == o.task_fractions[k]

\* self.actor_requirements.get(task_type, 1.0) * fraction
ActorsRequired(task, fraction) ==
    ((IF task \in DOMAIN Cfg.actor_requirements
      THEN Cfg.actor_requirements[task] ELSE One) * fraction) \div One

\* self.qualified_actor_types.get(task_type, [])
QualifiedTypes(task) ==
    IF task \in DOMAIN Cfg.qualified_actor_types
    THEN Cfg.qualified_actor_types[task] ELSE << >>

----------------------------------------------------------------------------
(* ProgramRunner.is_step_ready_to_start *)

\* The call raises: start_trigger is None for a step with several triggers, and
\* start_trigger.get("type") is an AttributeError.
is_step_ready_to_start_raises(w, i) ==
    w.status[i] = "PENDING" /\ Objs[i].start_trigger = None

is_step_ready_to_start(w, i, ct) ==
    LET trig == Val(Objs[i].start_trigger)
    IN IF w.status[i] # "PENDING" THEN FALSE
       ELSE IF trig.type = "programStart" THEN w.is_running
       ELSE IF trig.type = "offset"
            THEN ct >= Val(w.pst) + trig.offsetSeconds
       ELSE IF trig.type = "programStartOffset"
            THEN IF w.pst = None THEN FALSE
                 ELSE ct >= Val(w.pst) + trig.offsetSeconds
       ELSE IF trig.type = "afterStep"
            THEN IF trig.stepId \in StepKeys
                 THEN w.status[StepObj(trig.stepId)] = "COMPLETED"
                 ELSE FALSE
       \* "manual": step.step_id in self.manually_triggered_steps, a set that
       \* nothing adds to
       ELSE FALSE

----------------------------------------------------------------------------
(* ProgramRunner.start_ready_steps *)

\* The pending steps in dict order, with no sort.
SortByPriorityNone(seq) ==
    seq

RECURSIVE SortByPriority(_)
\* list.sort(key=priority): a stable sort, by insertion
SortByPriority(seq) ==
    IF seq = << >> THEN << >>
    ELSE LET n == Len(seq)
             front == SortByPriority(SubSeq(seq, 1, n - 1))
             x == seq[n]
             keep == Cardinality({ j \in DOMAIN front :
                                    Objs[front[j]].priority <= Objs[x].priority })
         IN SubSeq(front, 1, keep) \o << x >> \o SubSeq(front, keep + 1, Len(front))

\* current_usage + fraction > max_concurrent
ExceedsConstraintNoShare(current_usage, fraction, max_concurrent) ==
    current_usage > max_concurrent * One

ExceedsConstraint(current_usage, fraction, max_concurrent) ==
    current_usage + fraction > max_concurrent * One

\* total_capacity - current_usage - pending_usage
AvailableCapacityNoPending(actor_type, au, required) ==
    Cfg.actor_types[actor_type] * One - au[actor_type]

AvailableCapacity(actor_type, au, required) ==
    Cfg.actor_types[actor_type] * One - au[actor_type] - required[actor_type]

RECURSIVE BestActorLoop(_, _, _, _, _, _)
\* The loop over qualified_types; best is (best_actor_type,
\* best_available_capacity), "" standing for None.
BestActorLoop(qualified, k, au, required, actors_required, best) ==
    IF k > Len(qualified) THEN best
    ELSE IF qualified[k] \notin DOMAIN Cfg.actor_types
    THEN BestActorLoop(qualified, k + 1, au, required, actors_required, best)
    ELSE LET available == AvailableCapacity(qualified[k], au, required)
         IN IF available >= actors_required /\ available > best.cap
            THEN BestActorLoop(qualified, k + 1, au, required, actors_required,
                               [type |-> qualified[k], cap |-> available])
            ELSE BestActorLoop(qualified, k + 1, au, required, actors_required, best)

BestActorType(task, au, required, actors_required) ==
    BestActorLoop(QualifiedTypes(task), 1, au, required, actors_required,
                  [type |-> "", cap |-> 0]).type

RECURSIVE CheckTaskLoop(_, _, _, _, _)
\* The loop over step.task_types that decides can_start and fills
\* required_actors_by_type; passed counts the task types before the break.
CheckTaskLoop(o, k, ru, au, required) ==
    IF k > Len(o.task_types)
    THEN [can_start |-> TRUE, required |-> required, passed |-> k - 1]
    ELSE LET task == o.task_types[k]
             fraction == Fraction(o, k)
             need == ActorsRequired(task, fraction)
             best == BestActorType(task, au, required, need)
         IN IF task \notin DOMAIN Cfg.resource_constraints
            THEN CheckTaskLoop(o, k + 1, ru, au, required)
            ELSE IF \/ ExceedsConstraint(ru[task], fraction, Cfg.resource_constraints[task])
                    \/ QualifiedTypes(task) = << >>
                    \/ best = ""
            THEN [can_start |-> FALSE, required |-> required, passed |-> k - 1]
            ELSE CheckTaskLoop(o, k + 1, ru, au,
                               [required EXCEPT ![best] = @ + need])

\* resource_usage after "Update resource usage for each task type" over the
\* first n task types of the object
ChargeTasks(o, ru, n) ==
    [t \in DOMAIN ru |->
        IF \E k \in 1..n : o.task_types[k] = t /\ t \in DOMAIN Cfg.resource_constraints
        THEN ru[t] + Fraction(o, CHOOSE k \in 1..n : o.task_types[k] = t)
        ELSE ru[t]]

\* Executions of the code block by Step.start: "if self.code_type and
\* self.code_block: self.execute_code_block()"
StepExecuteCodeBlock(o) == IF o.has_code THEN 1 ELSE 0

\* Executions by the runner: "if step.has_code: self.execute_code_block(step)"
RunnerExecuteCodeBlock(o) == IF o.has_code THEN 1 ELSE 0

\* Step.start followed by the runner's "Set expected end time" and "Execute
\* code block if present"
StepStart(w, i, ct) ==
    LET o == Objs[i]
        by_step == IF o.duration_type = "fixed" THEN Some(ct + o.duration_seconds)
                   ELSE IF o.duration_type = "variable" THEN Some(ct + o.default_seconds)
                   ELSE None
        by_runner == IF o.duration_type = "FIXED" /\ o.duration_seconds # Absent
                     THEN Some(ct + o.duration_seconds)
                     ELSE IF o.duration_type = "VARIABLE" /\ o.default_seconds # Absent
                     THEN Some(ct + o.default_seconds)
                     ELSE IF o.duration_type = "INDEFINITE" /\ o.default_seconds # Absent
                     THEN Some(ct + o.default_seconds)
                     ELSE by_step
    IN [w EXCEPT !.status[i] = "RUNNING",
                 !.start_time[i] = Some(ct),
                 !.expected_end_time[i] = by_runner,
                 !.runs[i] = @ + StepExecuteCodeBlock(o) + RunnerExecuteCodeBlock(o)]

\* What an attempt whose checks stopped at a failing task leaves behind when
\* the shares of the task types before it were already added.
ApplyAttemptPartial(w, i, ct, chk) ==
    IF chk.can_start
    THEN [StepStart(w, i, ct) EXCEPT
            !.ru = ChargeTasks(Objs[i], w.ru, Len(Objs[i].task_types)),
            !.au = [a \in DOMAIN w.au |-> w.au[a] + chk.required[a]],
            !.charged[i] = chk.required]
    ELSE [w EXCEPT !.ru = ChargeTasks(Objs[i], w.ru, chk.passed)]

\* The "if can_start:" block of start_ready_steps
ApplyAttempt(w, i, ct, chk) ==
    IF chk.can_start
    THEN [StepStart(w, i, ct) EXCEPT
            !.ru = ChargeTasks(Objs[i], w.ru, Len(Objs[i].task_types)),
            !.au = [a \in DOMAIN w.au |-> w.au[a] + chk.required[a]],
            !.charged[i] = chk.required]
    ELSE w

\* One iteration of "for step in pending_steps" for a ready step, with the
\* attempt recorded in the history.
LogAttempt(w, i, chk, after) ==
    [after EXCEPT !.attempts =
        Append(@, [obj |-> i, can_start |-> chk.can_start,
                   required |-> chk.required, passed |-> chk.passed,
                   ru_before |-> w.ru, au_before |-> w.au,
                   ru_after |-> after.ru, au_after |-> after.au,
                   status_before |-> w.status[i],
                   status_after |-> after.status[i]])]

\* The attempt whose checks gave chk, and its record in the history.
DecideAttempt(w, i, ct, chk) ==
    LogAttempt(w, i, chk, ApplyAttempt(w, i, ct, chk))

AttemptStep(w, i, ct) ==
    DecideAttempt(w, i, ct, CheckTaskLoop(Objs[i], 1, w.ru, w.au, ZeroActors))

RECURSIVE StartLoop(_, _, _, _)
StartLoop(w, pending, k, ct) ==
    IF k > Len(pending) THEN w
    ELSE IF is_step_ready_to_start_raises(w, pending[k]) THEN [w EXCEPT !.exc = TRUE]
    ELSE StartLoop(IF is_step_ready_to_start(w, pending[k], ct)
                   THEN AttemptStep(w, pending[k], ct) ELSE w,
                   pending, k + 1, ct)

start_ready_steps(w, ct) ==
    StartLoop(w,
              SortByPriority(SelectSeq(Live, LAMBDA i : w.status[i] = "PENDING")),
              1, ct)

----------------------------------------------------------------------------
(* ProgramRunner.complete_step and ProgramRunner.abort_step *)

RECURSIVE BestUsageLoop(_, _, _, _)
\* "Find which actor type was actually used (choose the one with highest
\* usage)"; best is (best_actor_type, best_usage), "" standing for None.
BestUsageLoop(qualified, k, au, best) ==
    IF k > Len(qualified) THEN best
    ELSE IF qualified[k] \in DOMAIN au /\ au[qualified[k]] > best.usage
    THEN BestUsageLoop(qualified, k + 1, au,
                       [type |-> qualified[k], usage |-> au[qualified[k]]])
    ELSE BestUsageLoop(qualified, k + 1, au, best)

RECURSIVE ReleaseLoop(_, _, _, _, _)
\* The loop over step.task_types of complete_step / abort_step: decrements
\* resource_usage and fills freed_actors_by_type.
ReleaseLoop(o, k, ru, au, freed) ==
    IF k > Len(o.task_types) THEN [ru |-> ru, freed |-> freed]
    ELSE LET task == o.task_types[k]
             fraction == Fraction(o, k)
             best == BestUsageLoop(QualifiedTypes(task), 1, au,
                                   [type |-> "", usage |-> 0]).type
         IN IF task \notin DOMAIN Cfg.resource_constraints
            THEN ReleaseLoop(o, k + 1, ru, au, freed)
            ELSE ReleaseLoop(o, k + 1,
                             [ru EXCEPT ![task] = Max(0, @ - fraction)],
                             au,
                             IF best = "" THEN freed
                             ELSE [freed EXCEPT ![best] = @ + ActorsRequired(task, fraction)])

\* The resource part shared by complete_step and abort_step
\* "Free actor usage by type", r being the result of the loop over the tasks
FreeActors(w, r) ==
    [w EXCEPT !.ru = r.ru,
              !.au = [a \in DOMAIN w.au |-> Max(0, w.au[a] - r.freed[a])]]

ReleaseResources(w, i) ==
    FreeActors(w, ReleaseLoop(Objs[i], 1, w.ru, w.au, ZeroActors))

complete_step(w, i, t) ==
    ReleaseResources([w EXCEPT !.status[i] = "COMPLETED", !.end_time[i] = Some(t)], i)

abort_step(w, i, t) ==
    ReleaseResources([w EXCEPT !.status[i] = "ABORTED", !.end_time[i] = Some(t)], i)

----------------------------------------------------------------------------
(* Step.is_ready_to_complete, Step.get_remaining_time,
   ProgramRunner.complete_finished_steps *)

is_ready_to_complete(w, i, ct) ==
    LET o == Objs[i]
    IN IF w.status[i] # "RUNNING" THEN FALSE
       ELSE IF o.duration_type = "fixed"
            THEN IF w.expected_end_time[i] = None THEN FALSE
                 ELSE ct >= Val(w.expected_end_time[i]) - Epsilon
       ELSE IF o.duration_type = "variable"
            THEN IF w.start_time[i] = None \/ o.min_seconds = Absent THEN FALSE
                 ELSE ct >= Val(w.start_time[i]) + o.min_seconds
       ELSE FALSE

\* None, or max(0, expected_end_time - current_time)
get_remaining_time(w, i, ct) ==
    IF w.status[i] # "RUNNING" \/ w.expected_end_time[i] = None THEN None
    ELSE Some(Max(0, Val(w.expected_end_time[i]) - ct))

\* remaining < 0.1
NearZeroRemaining(remaining) == remaining < NearZero

RECURSIVE CompleteLoop(_, _)
CompleteLoop(w, k) ==
    IF k > Len(Live) THEN w
    ELSE LET i == Live[k]
             remaining == get_remaining_time(w, i, w.ct)
         IN CompleteLoop(
                IF is_ready_to_complete(w, i, w.ct) THEN complete_step(w, i, w.ct)
                ELSE IF w.status[i] = "RUNNING" /\ remaining # None
                        /\ NearZeroRemaining(Val(remaining))
                THEN complete_step(w, i, w.ct)
                ELSE w,
                k + 1)

complete_finished_steps(w) == CompleteLoop(w, 1)

----------------------------------------------------------------------------
(* Commands: ProgramRunner.process_commands, trigger_manual_step,
   _trigger_step *)

\* The command strings, split at ":" as process_commands splits them.
CmdStart == [kind |-> "start_program", name |-> "", step_id |-> ""]

\* "trigger:<name>" when step_id is "", "trigger:<name>:<step_id>" otherwise
CmdTrigger(name, step_id) == [kind |-> "trigger", name |-> name, step_id |-> step_id]

CmdAbort(step_id) == [kind |-> "abort", name |-> "", step_id |-> step_id]

\* A step id and a trigger name no program document uses.
NoSuchId == "ghost"

\* The commands of a queue that carry that id or that name.
NamingNoSuchId(queue) ==
    SelectSeq(queue, LAMBDA c : c.step_id = NoSuchId \/ c.name = NoSuchId)

\* A can_be_aborted() that does not look at the status.
CanBeAbortedAnyStatus(w, i) == i \in DOMAIN w.status

can_be_aborted(w, i) == w.status[i] = "RUNNING"

_trigger_step(w, i) ==
    IF w.status[i] = "PENDING" /\ has_manual_trigger(Objs[i])
    THEN [w EXCEPT !.status[i] = "WAITING_FOR_MANUAL"]
    ELSE IF w.status[i] = "RUNNING"
    THEN IF can_be_aborted(w, i) THEN abort_step(w, i, w.ct)
         ELSE IF Objs[i].duration_type = "variable" \/ Objs[i].duration_type = "indefinite"
         THEN complete_step(w, i, w.ct)
         ELSE w
    ELSE w

RECURSIVE TriggerAll(_, _, _)
TriggerAll(w, objs, k) ==
    IF k > Len(objs) THEN w
    ELSE TriggerAll(_trigger_step(w, objs[k]), objs, k + 1)

\* "for step in self.manual_triggers[trigger_name]: if step.step_id == step_id"
TriggerNamed(w, named) ==
    IF named # << >> THEN _trigger_step(w, Head(named)) ELSE w

trigger_manual_step(w, trigger_name, step_id) ==
    IF trigger_name = "start_program"
    THEN [w EXCEPT !.is_running = TRUE, !.pst = Some(w.ct)]
    ELSE IF trigger_name \notin DOMAIN Cfg.manual_triggers THEN w
    ELSE IF step_id # ""
         THEN TriggerNamed(w, SelectSeq(Cfg.manual_triggers[trigger_name],
                                        LAMBDA i : Objs[i].step_id = step_id))
    ELSE TriggerAll(w, Cfg.manual_triggers[trigger_name], 1)

\* The same iteration with an abort that does not ask can_be_aborted().
ProcessCommandAnyStatus(w, command, now) ==
    IF command.kind = "start_program"
    THEN IF w.pst = None
         THEN [w EXCEPT !.is_running = TRUE, !.pst = Some(now), !.ct = now]
         ELSE [w EXCEPT !.is_running = TRUE]
    ELSE IF command.kind = "trigger"
    THEN trigger_manual_step(w, command.name, command.step_id)
    ELSE IF command.kind = "abort"
    THEN IF command.step_id \in StepKeys
         THEN abort_step(w, StepObj(command.step_id), w.ct)
         ELSE w
    ELSE w

\* One iteration of the loop of process_commands; now is time.time().
ProcessCommand(w, command, now) ==
    IF command.kind = "start_program"
    THEN IF w.pst = None
         THEN [w EXCEPT !.is_running = TRUE, !.pst = Some(now), !.ct = now]
         ELSE [w EXCEPT !.is_running = TRUE]
    ELSE IF command.kind = "trigger"
    THEN trigger_manual_step(w, command.name, command.step_id)
    ELSE IF command.kind = "abort"
    THEN IF command.step_id \in StepKeys /\ can_be_aborted(w, StepObj(command.step_id))
         THEN abort_step(w, StepObj(command.step_id), w.ct)
         ELSE w
    ELSE w

RECURSIVE process_commands(_, _, _)
process_commands(w, queue, now) ==
    IF queue = << >> THEN w
    ELSE process_commands(ProcessCommand(w, Head(queue), now), Tail(queue), now)

----------------------------------------------------------------------------
(* ProgramRunner.update *)

\* "Check if all steps are completed"
AllStepsCompleted(w) == \A i \in LiveSet : w.status[i] = "COMPLETED"

\* self.program_start_time + (real_elapsed * self.time_scale)
ScaledTime(pst, now, scale) == pst + (now - pst) * scale

\* "Check if all steps are completed" and its consequence
FinishIfCompleted(w) ==
    IF AllStepsCompleted(w) THEN [w EXCEPT !.is_running = FALSE] ELSE w

\* update() from "Update current time" on, ct being the new current_time
\* update() after start_ready_steps; nothing more runs when it raised
UpdateAfterStart(w) ==
    IF w.exc THEN w ELSE FinishIfCompleted(complete_finished_steps(w))

UpdateRunning(w, ct) ==
    UpdateAfterStart(start_ready_steps([w EXCEPT !.ct = ct], ct))

\* update() after process_commands
UpdateAfterCommands(w, now) ==
    IF ~w.is_running THEN w
    ELSE UpdateRunning(w, ScaledTime(Val(w.pst), now, time_scale))

\* An update() that returns before process_commands while the program is not
\* running.
UpdateRunningOnly(w, queue, now) ==
    IF ~w.is_running THEN w
    ELSE UpdateAfterCommands([process_commands(w, queue, now) EXCEPT !.attempts = << >>],
                             now)

update(w, queue, now) ==
    UpdateAfterCommands([process_commands(w, queue, now) EXCEPT !.attempts = << >>],
                        now)

\* The variables a handler writes take their values from the record.
Write(w) ==
    /\ status' = w.status
    /\ start_time' = w.start_time
    /\ end_time' = w.end_time
    /\ expected_end_time' = w.expected_end_time
    /\ resource_usage' = w.ru
    /\ actor_usage_by_type' = w.au
    /\ charged' = w.charged
    /\ attempts' = w.attempts
    /\ is_running' = w.is_running
    /\ program_start_time' = w.pst
    /\ current_time' = w.ct
    /\ crashed' = w.exc
    /\ code_runs' = w.runs

----------------------------------------------------------------------------
(* Actions *)

\* ProgramRunner.start, called once by main_loop
Start ==
    /\ ~started
    /\ started' = TRUE
    /\ program_start_time' = Some(wall)
    /\ current_time' = wall
    /\ is_running' = IF ~auto_start THEN TRUE
                     ELSE program.startTrigger # "manual"
    /\ UNCHANGED << program, runner, auto_start, time_scale, wall, status, start_time,
                    end_time, expected_end_time, resource_usage,
                    actor_usage_by_type, command_queue, crashed, code_runs, processed, charged, attempts,
                    logic_errors, optimized_program >>

\* One call of update(), delta wall-clock units after the previous one
\* (main_loop sleeps 0.05 s in every iteration).
Update ==
    \E delta \in 1..MaxDelta :
        /\ started /\ ~crashed
        /\ wall + delta <= MaxWall
        /\ wall' = wall + delta
        /\ Write(update(World, command_queue, wall + delta))
        /\ command_queue' = << >>
        /\ processed' = NamingNoSuchId(command_queue)
        /\ UNCHANGED << logic_errors, optimized_program >>
        /\ UNCHANGED << program, runner, auto_start, started, time_scale >>

\* The commands a user interface or an embedder puts on the queue.
Commands ==
    { CmdStart }
    \cup { CmdAbort(id) : id \in StepKeys \cup { NoSuchId } }
    \cup { CmdTrigger(NoSuchId, "") }
    \cup { CmdTrigger(name, NoSuchId) : name \in DOMAIN Cfg.manual_triggers }
    \cup UNION { { CmdTrigger(Objs[i].manual_trigger_name, ""),
                    CmdTrigger(Objs[i].manual_trigger_name, Objs[i].step_id) } :
                  i \in { j \in DOMAIN Objs : Objs[j].manual_trigger_name # "" } }

\* runner.command_queue.put(command)
Enqueue ==
    \E command \in Commands :
        /\ started /\ ~crashed
        /\ Len(command_queue) < MaxQueue
        /\ command_queue' = Append(command_queue, command)
        /\ UNCHANGED << program, runner, auto_start, started, time_scale, wall, is_running,
                        program_start_time, current_time, status, start_time,
                        end_time, expected_end_time, resource_usage,
                        actor_usage_by_type, crashed, code_runs, processed, charged, attempts,
                    logic_errors, optimized_program >>

\* handle_input, key "+"
KeyPlus ==
    /\ ~crashed
    /\ time_scale * 2 <= MaxScale
    /\ time_scale' = Min(MaxTimeScale, time_scale * 2)
    /\ UNCHANGED << program, runner, auto_start, started, wall, is_running,
                    program_start_time, current_time, status, start_time,
                    end_time, expected_end_time, resource_usage,
                    actor_usage_by_type, command_queue, crashed, code_runs, processed, charged, attempts,
                    logic_errors, optimized_program >>

\* handle_input, key "-"
KeyMinus ==
    /\ ~crashed
    /\ time_scale > MinTimeScale
    /\ time_scale' = Max(MinTimeScale, time_scale \div 2)
    /\ UNCHANGED << program, runner, auto_start, started, wall, is_running,
                    program_start_time, current_time, status, start_time,
                    end_time, expected_end_time, resource_usage,
                    actor_usage_by_type, command_queue, crashed, code_runs, processed, charged, attempts,
                    logic_errors, optimized_program >>

\* handle_input, key "c": force-complete the selected running step
KeyForceComplete ==
    \E i \in LiveSet :
        /\ ~crashed
        /\ status[i] = "RUNNING"
        /\ Write(complete_step(World, i, current_time))
        /\ UNCHANGED << program, runner, auto_start, started, time_scale, wall,
                        command_queue, processed, logic_errors, optimized_program >>

Next ==
    \/ Start
    \/ Update
    \/ Enqueue
    \/ KeyPlus
    \/ KeyMinus
    \/ KeyForceComplete

Spec == Init /\ [][Next]_vars

\* The same runner built from the documents of MorePrograms.
InitMore == InitWith(MorePrograms)

SpecMore == InitMore /\ [][Next]_vars

\* The same runner built from the documents of BatchPrograms.
InitBatch == InitWith(BatchPrograms)

SpecBatch == InitBatch /\ [][Next]_vars

\* The program whose steps declare tasks without constraint.
InitUndeclared == InitWith({ ProgUndeclared })

SpecUndeclared == InitUndeclared /\ [][Next]_vars

\* The commands another thread may have put on the queue between two ticks.
MaxQueueDrain ==
    2

\* runner.command_queue.put(command), up to MaxQueueDrain commands per tick
EnqueueMore ==
    \E command \in Commands :
        /\ started /\ ~crashed
        /\ Len(command_queue) < MaxQueueDrain
        /\ command_queue' = Append(command_queue, command)
        /\ UNCHANGED << program, runner, auto_start, started, time_scale, wall, is_running,
                        program_start_time, current_time, status, start_time,
                        end_time, expected_end_time, resource_usage,
                        actor_usage_by_type, crashed, code_runs, processed, charged,
                        attempts, logic_errors, optimized_program >>

\* The ticks of the runs with queues of several commands.
MaxWallDrain ==
    3

UpdateDrain == Update /\ wall' <= MaxWallDrain

NextQueue ==
    \/ Start
    \/ UpdateDrain
    \/ EnqueueMore

\* The program with a manual start, which waits for the start_program
\* command, under ticks and queues of several commands.
InitQueue == InitWith({ ProgManual }) /\ auto_start

SpecQueue == InitQueue /\ [][NextQueue]_vars

\* The linear two-step program started by main_loop with --auto-start and
\* --time-scale 0.1, and left alone: update() follows start() at once, and then
\* comes every 0.5 s or 1 s, that is every 0.05 s or 0.1 s of program time.
InitSeq == InitWith({ ProgSeq }) /\ auto_start

UpdateSeq ==
    \E delta \in 0..MaxDeltaSeq :
        /\ started /\ ~crashed
        /\ delta = 0 => wall = 0
        /\ wall + delta <= MaxWallSeq
        /\ wall' = wall + delta
        /\ Write(update(World, command_queue, wall + delta))
        /\ command_queue' = << >>
        /\ processed' = NamingNoSuchId(command_queue)
        /\ UNCHANGED << logic_errors, optimized_program >>
        /\ UNCHANGED << program, runner, auto_start, started, time_scale >>

NextSeq ==
    \/ Start
    \/ UpdateSeq

SpecSeq == InitSeq /\ [][NextSeq]_vars

\* The same run of the program with offsets.
InitLag == InitWith({ ProgLag }) /\ auto_start

SpecLag == InitLag /\ [][NextSeq]_vars

----------------------------------------------------------------------------
(* Notions the properties share *)

\* The share of a task an object declares, 0 when it does not declare the
\* task or the runner knows no constraint of it.
TaskShare(o, task) ==
    IF task \in DOMAIN Cfg.resource_constraints
       /\ \E k \in DOMAIN o.task_types : o.task_types[k] = task
    THEN o.task_fractions[CHOOSE k \in DOMAIN o.task_types : o.task_types[k] = task]
    ELSE 0

Running(i) == status[i] = "RUNNING"

\* An update() happened in this step: the wall clock was read again.
Ticked == wall' # wall

----------------------------------------------------------------------------
(* C1: for every task with a concurrency constraint the usage counter stays
   within 0..max_concurrent, fractional shares included. *)
C1_TaskUsageWithinLimit ==
    \A t \in DOMAIN Cfg.resource_constraints :
        /\ 0 <= resource_usage[t]
        /\ resource_usage[t] <= Cfg.resource_constraints[t] * One

\* Two steps with fractional shares run together and fill the task.
C1_Witness ==
    \E t \in DOMAIN Cfg.resource_constraints :
        /\ resource_usage[t] = Cfg.resource_constraints[t] * One
        /\ \E i, j \in LiveSet :
            /\ i # j /\ Running(i) /\ Running(j)
            /\ TaskShare(Objs[i], t) > 0 /\ TaskShare(Objs[i], t) < One
            /\ TaskShare(Objs[j], t) > 0 /\ TaskShare(Objs[j], t) < One

(* C2: for every actor type the occupancy counter stays within 0..count, also
   when one step reserves several tasks in one admission attempt. *)
C2_ActorUsageWithinCount ==
    \A a \in DOMAIN Cfg.actor_types :
        /\ 0 <= actor_usage_by_type[a]
        /\ actor_usage_by_type[a] <= Cfg.actor_types[a] * One

\* A step with two constrained tasks was admitted and an actor type is full;
\* and in the same program an attempt reserved for its first task and was
\* rejected at its second.
C2_Witness ==
    /\ \E i \in LiveSet :
        /\ Running(i)
        /\ Cardinality({ t \in DOMAIN Cfg.resource_constraints :
                            TaskShare(Objs[i], t) > 0 }) >= 2
        /\ \E a \in DOMAIN Cfg.actor_types :
            /\ charged[i][a] > 0
            /\ actor_usage_by_type[a] = Cfg.actor_types[a] * One
    /\ \E k \in DOMAIN attempts :
        ~attempts[k].can_start /\ attempts[k].passed >= 1

(* C3: when a Running step completes or is aborted, each actor type's
   occupancy decreases by exactly what the step's admission charged to that
   type, and the occupancy of the types it did not charge is unchanged.
   Stated for the steps in which exactly one step leaves Running and no other
   object changes its status. *)
C3_ReleaseRefundsChargedType ==
    [][\A i \in LiveSet :
        ( /\ Running(i)
          /\ status'[i] \in {"COMPLETED", "ABORTED"}
          /\ \A j \in DOMAIN status : j # i => status'[j] = status[j] )
        => \A a \in DOMAIN Cfg.actor_types :
              actor_usage_by_type'[a] = actor_usage_by_type[a] - charged[i][a]]_vars

(* C4: admission is all-or-nothing. An attempt in which a task fails its
   concurrency or actor check changes no task usage counter and no actor
   occupancy and leaves the step's status; an attempt in which every task
   passes adds every share and every actor charge of the step and makes it
   Running. *)
C4_AdmissionAllOrNothing ==
    \A k \in DOMAIN attempts :
        LET e == attempts[k]
            o == Objs[e.obj]
        IN IF e.can_start
           THEN /\ e.status_after = "RUNNING"
                /\ status[e.obj] \in {"RUNNING", "COMPLETED"}
                /\ \A t \in DOMAIN e.ru_before :
                      e.ru_after[t] = e.ru_before[t] + TaskShare(o, t)
                /\ \A a \in DOMAIN e.au_before :
                      e.au_after[a] = e.au_before[a] + e.required[a]
           ELSE /\ e.status_after = e.status_before
                /\ status[e.obj] = e.status_before
                /\ e.ru_after = e.ru_before
                /\ e.au_after = e.au_before

\* In one update() an attempt passed its first task and failed its second, and
\* an attempt with two constrained tasks passed both.
C4_Witness ==
    /\ \E k \in DOMAIN attempts :
        ~attempts[k].can_start /\ attempts[k].passed >= 1
    /\ \E k \in DOMAIN attempts :
        /\ attempts[k].can_start
        /\ Cardinality({ t \in DOMAIN Cfg.resource_constraints :
                            TaskShare(Objs[attempts[k].obj], t) > 0 }) >= 2

(* C5: every Completed step has ended_at >= started_at and every Running step
   has a started_at, whatever the history of time_scale. *)
C5_EndNotBeforeStart ==
    \A i \in LiveSet :
        /\ status[i] = "COMPLETED" =>
              /\ start_time[i] # None /\ end_time[i] # None
              /\ Val(end_time[i]) >= Val(start_time[i])
        /\ status[i] = "RUNNING" => start_time[i] # None

(* C6: as soon as every step is Completed or Aborted, the tick marks the
   program finished. *)
C6_FinishedWhenAllTerminal ==
    [][( /\ Ticked
         /\ \A i \in LiveSet : status'[i] \in {"COMPLETED", "ABORTED"} )
       => ~is_running']_vars

(* C7: a Running step with Indefinite duration is never completed by the tick
   loop on its own: in an update() that drains no command it stays Running. *)
C7_IndefiniteNeverAutoCompletes ==
    [][\A i \in LiveSet :
        ( /\ Ticked
          /\ command_queue = << >>
          /\ Objs[i].duration_type = "INDEFINITE"
          /\ Running(i) )
        => status'[i] = "RUNNING"]_vars

(* C8: a matching Trigger command for a Pending step with a Manual start
   trigger makes it WaitingForManual (or already Running) in the update() that
   drains it, and an update() of a running program admits a WaitingForManual
   step that needs no resource. *)
C8_ManualTriggerAdmits ==
    [][\A i \in LiveSet :
        /\ ( /\ Ticked
             /\ status[i] = "PENDING"
             /\ has_manual_trigger(Objs[i])
             /\ Len(command_queue) = 1
             /\ Head(command_queue).kind = "trigger"
             /\ Head(command_queue).name = Objs[i].manual_trigger_name
             /\ Head(command_queue).step_id \in {"", Objs[i].step_id} )
           => status'[i] \in {"WAITING_FOR_MANUAL", "RUNNING"}
        /\ ( /\ Ticked
             /\ status[i] = "WAITING_FOR_MANUAL"
             /\ Objs[i].task_types = << >>
             /\ is_running /\ is_running' )
           => status'[i] \in {"RUNNING", "COMPLETED"}]_vars

(* C9: a Trigger delivered to a Running step with Variable duration before min
   has elapsed does not end the step: it stays Running. *)
C9_NoManualEndBeforeMin ==
    [][\A i \in LiveSet :
        ( /\ Ticked
          /\ Running(i)
          /\ Objs[i].duration_type = "VARIABLE"
          /\ Len(command_queue) = 1
          /\ Head(command_queue).kind = "trigger"
          /\ Head(command_queue).name = Objs[i].manual_trigger_name
          /\ Head(command_queue).step_id \in {"", Objs[i].step_id}
          /\ current_time - Val(start_time[i]) < Objs[i].min_seconds
          /\ current_time' - Val(start_time[i]) < Objs[i].min_seconds )
        => status'[i] = "RUNNING"]_vars

\* The pending objects of self.steps that start_ready_steps tries before
\* object p: those of a lower priority number, or of the same and defined
\* earlier.
TriedBefore(p) ==
    { j \in LiveSet :
        /\ j # p /\ status[j] = "PENDING"
        /\ \/ Objs[j].priority < Objs[p].priority
           \/ Objs[j].priority = Objs[p].priority /\ j < p }

(* C10: an Abort command for a Running step S makes S Aborted in the next
   update() and returns its reservation: the usage of each of its tasks drops
   by its share when no other step changes status, and a ready Pending step
   that needs no more than S held, and is the first one tried, is admitted in
   that update(). *)
C10_AbortReleasesForNextStep ==
    [][\A i \in LiveSet :
        ( /\ Ticked
          /\ Running(i)
          /\ is_running
          /\ command_queue = << CmdAbort(Objs[i].step_id) >> )
        => /\ status'[i] = "ABORTED"
           /\ (\A j \in DOMAIN status : j # i => status'[j] = status[j])
                => \A t \in DOMAIN resource_usage :
                      resource_usage'[t] = resource_usage[t] - TaskShare(Objs[i], t)
           /\ \A p \in LiveSet :
                ( /\ status[p] = "PENDING"
                  /\ Objs[p].start_trigger = Some(TrigProgramStart)
                  /\ TriedBefore(p) = {}
                  /\ Objs[p].task_types # << >>
                  /\ \A t \in DOMAIN resource_usage :
                        TaskShare(Objs[p], t) <= TaskShare(Objs[i], t) )
                => status'[p] \in {"RUNNING", "COMPLETED"}]_vars

----------------------------------------------------------------------------
\* A command that names nothing it could act on: an abort of a step that does
\* not exist or is not running, a trigger with an unknown name, a trigger
\* whose step id matches no step of that trigger.
NamesNothing(command) ==
    \/ /\ command.kind = "abort"
       /\ \/ command.step_id \notin StepKeys
          \/ status[StepObj(command.step_id)] # "RUNNING"
    \/ /\ command.kind = "trigger"
       /\ command.name # "start_program"
       /\ \/ command.name \notin DOMAIN Cfg.manual_triggers
          \/ /\ command.step_id # ""
             /\ \A k \in DOMAIN Cfg.manual_triggers[command.name] :
                    Objs[Cfg.manual_triggers[command.name][k]].step_id # command.step_id

\* The state an update() at the given wall-clock time leaves when the queue is
\* empty.
SameAsWithoutCommand(w) ==
    /\ status' = w.status
    /\ start_time' = w.start_time
    /\ end_time' = w.end_time
    /\ resource_usage' = w.ru
    /\ actor_usage_by_type' = w.au
    /\ is_running' = w.is_running
    /\ current_time' = w.ct
    /\ crashed' = w.exc

(* C11: an abort command that names a step that is not running or does not
   exist, and a trigger command with an unknown name or with a step id that
   matches no step of that trigger, change no step status and no resource
   counter: the update() that takes such a command off the queue leaves
   exactly the state it leaves without the command, so the rest of the tick
   runs as usual. *)
C11_UnmatchedCommandChangesNothing ==
    [][( /\ Ticked
         /\ Len(command_queue) = 1
         /\ NamesNothing(Head(command_queue)) )
       => SameAsWithoutCommand(update(World, << >>, wall'))]_vars

\* Each kind of unmatched command was taken off the queue by an update() that
\* went on to start a step.
C11_Witness ==
    /\ processed = << CmdAbort(NoSuchId) >>
    /\ \E i \in LiveSet : status[i] = "RUNNING" /\ start_time[i] = Some(current_time)

C11_WitnessTrigger ==
    /\ Len(processed) = 1
    /\ Head(processed).kind = "trigger"
    /\ Head(processed).step_id = NoSuchId
    /\ \E i \in LiveSet : status[i] = "RUNNING"

----------------------------------------------------------------------------
\* The position of a step in the program document (the order of self.steps).
DefinitionIndex(i) == CHOOSE k \in DOMAIN Live : Live[k] = i

\* Ascending priority number, then definition order.
ComesBefore(i, j) ==
    \/ Objs[i].priority < Objs[j].priority
    \/ Objs[i].priority = Objs[j].priority /\ DefinitionIndex(i) < DefinitionIndex(j)

SameNeeds(i, j) ==
    /\ Objs[i].task_types = Objs[j].task_types
    /\ Objs[i].task_fractions = Objs[j].task_fractions

(* C12: within one update() the ready steps are attempted in ascending
   priority number and, for equal numbers, in definition order; of two ready
   steps with the same needs the later one is never admitted when the earlier
   one was not, so when only one fits the lower number (or the first defined)
   gets the resources and the other stays Pending. *)
C12_PriorityThenDefinitionOrder ==
    \A k, l \in DOMAIN attempts :
        k < l =>
            /\ ComesBefore(attempts[k].obj, attempts[l].obj)
            /\ ( SameNeeds(attempts[k].obj, attempts[l].obj)
                 /\ attempts[l].can_start ) => attempts[k].can_start
            /\ ( SameNeeds(attempts[k].obj, attempts[l].obj)
                 /\ attempts[k].can_start /\ ~attempts[l].can_start )
               => /\ status[attempts[k].obj] \in {"RUNNING", "COMPLETED"}
                  /\ status[attempts[l].obj] = "PENDING"

\* In one update() the step with priority 1 defined second took the only oven,
\* the step with priority 1 defined third and then the step with priority 5
\* defined first were refused.
C12_Witness ==
    /\ program = ProgPriority
    /\ Len(attempts) = 3
    /\ Objs[attempts[1].obj].step_id = "H" /\ attempts[1].can_start
    /\ Objs[attempts[2].obj].step_id = "E" /\ ~attempts[2].can_start
    /\ Objs[attempts[3].obj].step_id = "L" /\ ~attempts[3].can_start
    /\ status[attempts[2].obj] = "PENDING"
    /\ status[attempts[3].obj] = "PENDING"

----------------------------------------------------------------------------
\* The program is over: update() found every step completed.
Finished == started /\ ~is_running /\ \A i \in LiveSet : status[i] = "COMPLETED"

\* duration_seconds of the step with the id
Seconds(step_id) == Objs[StepObj(step_id)].duration_seconds

(* C13: the linear two-step program started at t = 0 runs A from 0 to 5 s and
   B from 5 s to 8 s, and finishes at 8 s. *)
C13_LinearTwoStepTimes ==
    (program = ProgSeq /\ Finished)
    => /\ start_time[StepObj("A")] = Some(0)
       /\ end_time[StepObj("A")] = Some(Seconds("A"))
       /\ start_time[StepObj("B")] = Some(Seconds("A"))
       /\ end_time[StepObj("B")] = Some(Seconds("A") + Seconds("B"))
       /\ current_time = Seconds("A") + Seconds("B")

\* What the runs have in common: B starts later than A ends.
C13_SuccessorStartsLater ==
    (program = ProgSeq /\ start_time[StepObj("B")] # None)
    => /\ end_time[StepObj("A")] # None
       /\ Val(start_time[StepObj("B")]) > Val(end_time[StepObj("A")])

----------------------------------------------------------------------------
\* The steps with a single start trigger of the type.
TriggeredBy(type) ==
    { i \in LiveSet : Objs[i].start_trigger # None
                      /\ Val(Objs[i].start_trigger).type = type }

\* The step a trigger refers to.
Referenced(i) == StepObj(Val(Objs[i].start_trigger).stepId)

\* The event of an afterStep trigger, "end" when the document names none, and
\* its offset.
EventOf(i) ==
    IF "event" \in DOMAIN Val(Objs[i].start_trigger)
    THEN Val(Objs[i].start_trigger).event ELSE "end"

OffsetOf(i) == Val(Objs[i].start_trigger).offsetSeconds

\* The referenced step has reached the event and the offset has passed at
\* time ct, given the statuses and times st, stime, etime.
AfterStepSatisfied(i, st, stime, etime, ct) ==
    IF EventOf(i) = "start"
    THEN /\ st[Referenced(i)] \in {"RUNNING", "COMPLETED", "ABORTED"}
         /\ stime[Referenced(i)] # None
         /\ Val(stime[Referenced(i)]) + OffsetOf(i) <= ct
    ELSE /\ st[Referenced(i)] = "COMPLETED"
         /\ etime[Referenced(i)] # None
         /\ Val(etime[Referenced(i)]) + OffsetOf(i) <= ct

(* C14: a step with the trigger afterStep(id, event, offset) is started by an
   update() exactly when the referenced step has reached the event (started,
   for "start"; completed, for "end") and event time + offset <= current_time:
   it never has a start time earlier than that, and an update() that finds the
   trigger satisfied and the step Pending starts it, for "start" also while
   the referenced step is running. *)
C14_AfterStepEventAndOffset ==
    [][\A i \in TriggeredBy("afterStep") :
        /\ (status[i] = "PENDING" /\ status'[i] # "PENDING")
            => AfterStepSatisfied(i, status', start_time', end_time', Val(start_time'[i]))
        /\ ( /\ Ticked /\ command_queue = << >> /\ is_running /\ ~crashed'
             /\ status[i] = "PENDING"
             /\ AfterStepSatisfied(i, status, start_time, end_time, current_time') )
            => status'[i] # "PENDING"]_vars

----------------------------------------------------------------------------
BufferOf(i) == Val(Objs[i].start_trigger).bufferSeconds

\* The referenced step is completed and the buffer has passed at time ct.
BufferSatisfied(i, st, etime, ct) ==
    /\ st[Referenced(i)] = "COMPLETED"
    /\ etime[Referenced(i)] # None
    /\ Val(etime[Referenced(i)]) + BufferOf(i) <= ct

\* An update() of the running program, with no command to process, that did
\* not raise.
QuietTick == Ticked /\ command_queue = << >> /\ is_running /\ ~crashed'

(* C15: a Pending step with the trigger afterStepWithBuffer(id, buffer) is
   started (it needs no resources here) by an update() that finds step id
   completed and at least the buffer elapsed since its completion, and it is
   never started before that. *)
C15_AfterStepWithBufferStarts ==
    [][\A i \in TriggeredBy("afterStepWithBuffer") :
        /\ (status[i] = "PENDING" /\ status'[i] # "PENDING")
            => BufferSatisfied(i, status', end_time', Val(start_time'[i]))
        /\ ( /\ QuietTick
             /\ status[i] = "PENDING"
             /\ BufferSatisfied(i, status, end_time, current_time') )
            => status'[i] # "PENDING"]_vars

(* C16: a Pending step with the trigger onAbort(id) is started (it needs no
   resources here) by an update() that comes after step id became Aborted, and
   is never started while step id is not Aborted. *)
C16_OnAbortStarts ==
    [][\A i \in TriggeredBy("onAbort") :
        /\ (status[i] = "PENDING" /\ status'[i] # "PENDING")
            => status[Referenced(i)] = "ABORTED"
        /\ ( /\ QuietTick
             /\ status[i] = "PENDING"
             /\ status[Referenced(i)] = "ABORTED" )
            => status'[i] # "PENDING"]_vars

----------------------------------------------------------------------------
\* The steps with several triggers and a logic.
Composite == { i \in LiveSet : Objs[i].start_triggers # None }

\* One child trigger at time ct, the program running since pst.
ChildSatisfied(trig, st, etime, running, pst, ct) ==
    IF trig.type = "programStart" THEN running
    ELSE IF trig.type = "programStartOffset"
    THEN pst # None /\ ct - Val(pst) >= trig.offsetSeconds
    ELSE IF trig.type = "afterStep"
    THEN /\ st[StepObj(trig.stepId)] = "COMPLETED"
         /\ Val(etime[StepObj(trig.stepId)]) + trig.offsetSeconds <= ct
    ELSE FALSE

\* "all": every child; "any": at least one child.
CompositeSatisfied(i, st, etime, running, pst, ct) ==
    LET children == Val(Objs[i].start_triggers)
    IN IF Val(Objs[i].start_trigger_logic) = "all"
       THEN \A k \in DOMAIN children :
                ChildSatisfied(children[k], st, etime, running, pst, ct)
       ELSE \E k \in DOMAIN children :
                ChildSatisfied(children[k], st, etime, running, pst, ct)

(* C17: a step with several triggers and a logic is started only by an
   update() at whose current_time all of its triggers ("all") or one of them
   ("any") are satisfied, and an update() of the running program that finds
   them satisfied starts the step (it needs no resources here) and does not
   fail. *)
C17_CompositeAdmitted ==
    [][\A i \in Composite :
        /\ (status[i] = "PENDING" /\ status'[i] # "PENDING")
            => CompositeSatisfied(i, status, end_time, is_running',
                                  program_start_time', Val(start_time'[i]))
        /\ ( /\ Ticked /\ command_queue = << >> /\ is_running
             /\ status[i] = "PENDING"
             /\ CompositeSatisfied(i, status, end_time, is_running,
                                   program_start_time, current_time') )
            => status'[i] # "PENDING" /\ ~crashed']_vars

----------------------------------------------------------------------------
\* The program has neither inline constraints nor an environment.
ActorsOnly == program.resourceConstraints = << >> /\ program.environment = ""

(* C18: in a program with neither inline resource constraints nor an
   environment every task has the limit `actors`: an update() of the running
   program starts a ready step that uses a task when the usage of the task
   plus the step's share does not exceed that count, and leaves it Pending
   otherwise. *)
C18_ActorsOnlyFallbackAdmits ==
    [][ActorsOnly =>
        /\ \A t \in DOMAIN Cfg.resource_constraints :
                Cfg.resource_constraints[t] = RunnerActors(program)
        /\ \A k \in DOMAIN attempts' :
              Ticked =>
                LET e == attempts'[k]
                IN \A t \in DOMAIN e.ru_before :
                     TaskShare(Objs[e.obj], t) > 0 =>
                        ( e.status_after = "RUNNING"
                          <=> e.ru_before[t] + TaskShare(Objs[e.obj], t)
                                <= RunnerActors(program) * One )]_vars

----------------------------------------------------------------------------
\* The actor type ids of the environments in lexicographic order.
IdsInOrder == << "aide", "baker", "generic", "head", "head-baker" >>

LexRank(id) == CHOOSE k \in DOMAIN IdsInOrder : IdsInOrder[k] = id

\* The capacity of an actor type that is free before an attempt.
Remaining(e, a) == Cfg.actor_types[a] * One - e.au_before[a]

\* The qualified types of a task that have the needed actors free.
Eligible(e, task, need) ==
    { a \in DOMAIN Cfg.actor_types :
        /\ \E k \in DOMAIN QualifiedTypes(task) : QualifiedTypes(task)[k] = a
        /\ Remaining(e, a) >= need }

(* C19: the actor type an admission charges for a task is the qualified type
   with the greatest remaining capacity among those with the needed actors
   free, and of several with that capacity the one with the
   lexicographically smallest id (stated for steps with one task, where no
   earlier reservation of the same attempt counts). *)
C19_ChargesGreatestRemainingThenSmallestId ==
    \A k \in DOMAIN attempts :
        LET e == attempts[k]
            o == Objs[e.obj]
        IN ( /\ e.can_start
             /\ Len(o.task_types) = 1
             /\ o.task_types[1] \in DOMAIN Cfg.resource_constraints )
           => \E a \in Eligible(e, o.task_types[1],
                                ActorsRequired(o.task_types[1], Fraction(o, 1))) :
                /\ e.required[a] = ActorsRequired(o.task_types[1], Fraction(o, 1))
                /\ \A b \in Eligible(e, o.task_types[1],
                                      ActorsRequired(o.task_types[1], Fraction(o, 1))) :
                      \/ Remaining(e, b) < Remaining(e, a)
                      \/ Remaining(e, b) = Remaining(e, a) /\ LexRank(a) <= LexRank(b)

----------------------------------------------------------------------------
(* C20: the code block of a step is executed exactly once per start: every
   transition of a step with a code block to Running comes with one execution
   of the block, and nothing else executes it. *)
C20_CodeBlockOncePerStart ==
    [][\A i \in LiveSet :
        Objs[i].has_code =>
            code_runs'[i] = code_runs[i]
                + (IF start_time[i] = None /\ start_time'[i] # None THEN 1 ELSE 0)]_vars

----------------------------------------------------------------------------
\* No step object has left Pending.
AllPending == \A i \in DOMAIN status : status[i] = "PENDING"

\* The queue holds a start_program command.
StartQueued == \E k \in DOMAIN command_queue : command_queue[k] = CmdStart

(* C21: a runner created with auto_start = False for a program whose start
   trigger is manual is not started automatically: as long as no
   start_program command is processed, start() and the calls of update()
   leave every step Pending. *)
C21_ManualProgramWaitsForStart ==
    [][( /\ ~auto_start
         /\ program.startTrigger = "manual"
         /\ AllPending
         /\ ~(Ticked /\ StartQueued) )
       => \A i \in DOMAIN status : status'[i] = "PENDING"]_vars

----------------------------------------------------------------------------
\* The offset a trigger document stands for: 0 for programStart.
StartOffset(trig) == IF trig.type = "programStart" THEN 0 ELSE trig.offsetSeconds

\* The start trigger of the instance of a step document in a batch: of the
\* object self.steps holds under the id with the batch suffix.
InstanceTrigger(track, sd, batch_index) ==
    Val(Objs[StepObj(sd.stepId \o BatchSuffix(track, batch_index))].start_trigger)

(* C22: in a track with batch_size N > 1 and stagger s > 0 the instance in
   batch i of a step triggered by programStart has the trigger
   programStartOffset(i * s), and of a step triggered by programStartOffset(d)
   the trigger programStartOffset(d + i * s); the instance in batch 0 keeps the
   trigger of the document. *)
C22_BatchStagger ==
    \A t \in DOMAIN program.tracks :
        LET track == program.tracks[t]
        IN (track.batch_size > 1 /\ track.stagger > 0)
           => \A k \in DOMAIN track.steps :
                track.steps[k].startTrigger.type \in {"programStart", "programStartOffset"}
                => /\ InstanceTrigger(track, track.steps[k], 0).type
                        = track.steps[k].startTrigger.type
                   /\ StartOffset(InstanceTrigger(track, track.steps[k], 0))
                        = StartOffset(track.steps[k].startTrigger)
                   /\ \A i \in 1..(track.batch_size - 1) :
                        /\ InstanceTrigger(track, track.steps[k], i).type
                                = "programStartOffset"
                        /\ InstanceTrigger(track, track.steps[k], i).offsetSeconds
                                = StartOffset(track.steps[k].startTrigger) + i * track.stagger

----------------------------------------------------------------------------
\* A trigger command for the step self.steps holds under that id, carrying the
\* trigger name of that step.
TriggersLiveStep(command) ==
    /\ command.kind = "trigger"
    /\ command.step_id \in StepKeys
    /\ Objs[StepObj(command.step_id)].manual_trigger_name = command.name

(* C23: a trigger command with a step id is delivered to the step that
   self.steps holds under that id: the update() that takes the command off
   the queue changes that step as _trigger_step dictates and then runs the
   tick as usual, so no other step of the same trigger name is triggered. *)
C23_TriggerReachesScheduledStep ==
    [][( /\ Ticked
         /\ Len(command_queue) = 1
         /\ TriggersLiveStep(Head(command_queue)) )
       => status' = update(_trigger_step(World, StepObj(Head(command_queue).step_id)),
                           << >>, wall').status]_vars

----------------------------------------------------------------------------
(* validate_program.py: the checks of perform_additional_validations.  The
   documents carry integer times, so normalisation of time strings has
   nothing to convert. *)

\* dict.get(key, default)
Get(d, key, default) == IF key \in DOMAIN d THEN d[key] ELSE default

Range(seq) == { seq[i] : i \in DOMAIN seq }

\* A preBuffer or postBuffer document; an empty list stands for a missing key.
Buffer(tasks, taskResources) == [tasks |-> tasks, taskResources |-> taskResources]

NoBuffer == Buffer(<< >>, << >>)

\* step.get("preBuffer", {}), step.get("postBuffer", {})
PreBuffer(step) == Get(step, "preBuffer", NoBuffer)

PostBuffer(step) == Get(step, "postBuffer", NoBuffer)

\* The places of the step documents: track index and index in the track.
StepPositions(p) ==
    UNION { { << t, k >> : k \in DOMAIN p.tracks[t].steps } : t \in DOMAIN p.tracks }

StepAt(p, pos) == p.tracks[pos[1]].steps[pos[2]]

\* One message of the list of errors: its kind and the names and numbers the
\* message text is formatted from.
Error(kind, track, subject, other, amount) ==
    [kind |-> kind, track |-> track, subject |-> subject, other |-> other,
     amount |-> amount]

step_ids(p) == { StepAt(p, pos).stepId : pos \in StepPositions(p) }

step_id_count(p, step_id) ==
    Cardinality({ pos \in StepPositions(p) : StepAt(p, pos).stepId = step_id })

\* "Collect referenced step IDs"
referenced_step_ids(p) ==
    { StepAt(p, pos).startTrigger.stepId :
        pos \in { q \in StepPositions(p) :
                    /\ Get(StepAt(p, q).startTrigger, "type", "")
                            \in { "afterStep", "afterStepWithBuffer" }
                    /\ "stepId" \in DOMAIN StepAt(p, q).startTrigger } }

\* "Collect task types used in steps and buffers"
BufferedTaskTypes(step) ==
    (IF step.task # "" THEN { step.task } ELSE { })
        \cup Range(PreBuffer(step).tasks)
        \cup Range(PostBuffer(step).tasks)
        \cup { PreBuffer(step).taskResources[i].name :
                    i \in DOMAIN PreBuffer(step).taskResources }
        \cup { PostBuffer(step).taskResources[i].name :
                    i \in DOMAIN PostBuffer(step).taskResources }

task_types_in_steps(p) == UNION { BufferedTaskTypes(StepAt(p, pos)) : pos \in StepPositions(p) }

task_types_in_constraints(p) == TasksOf(load_resource_constraints(p))

\* An integer is returned as it is; 0 and None give 0.
parse_time_string_to_seconds(time_value) ==
    IF time_value = 0 \/ time_value = Absent THEN 0 ELSE time_value

\* Only the key "seconds" of a duration dict counts ("minutes" and "hours"
\* occur in no document here).
parse_duration_to_seconds(duration) ==
    IF duration.seconds # Absent
    THEN parse_time_string_to_seconds(duration.seconds)
    ELSE 0

\* The first step of a list with that id, if any.
FirstWithId(steps, step_id) ==
    LET idx == { k \in DOMAIN steps : steps[k].stepId = step_id }
    IN IF idx = { } THEN None
       ELSE Some(steps[CHOOSE k \in idx : \A j \in idx : k <= j])

\* referenced_track_steps: the current track if it has the step, otherwise the
\* first track that has it.
ReferencedTrackSteps(track_steps, p, step_id) ==
    IF FirstWithId(track_steps, step_id) # None THEN Some(track_steps)
    ELSE LET ts == { t \in DOMAIN p.tracks : FirstWithId(p.tracks[t].steps, step_id) # None }
         IN IF ts = { } THEN None
            ELSE Some(p.tracks[CHOOSE t \in ts : \A u \in ts : t <= u].steps)

RECURSIVE RecursionEnds(_, _, _, _)
\* The calls of calculate_step_start_time reach a return without a further
\* call within the given number of frames. The function keeps no record of
\* the steps it has visited.
RecursionEnds(step, track_steps, p, frames) ==
    LET start_trigger == step.startTrigger
        referenced_step_id == Get(start_trigger, "stepId", "")
        found == ReferencedTrackSteps(track_steps, p, referenced_step_id)
    IN IF frames = 0 THEN FALSE
       ELSE IF Get(start_trigger, "type", "programStart")
                    \notin { "afterStep", "afterStepWithBuffer" }
       THEN TRUE
       ELSE IF referenced_step_id = "" \/ found = None THEN TRUE
       ELSE RecursionEnds(Val(FirstWithId(Val(found), referenced_step_id)),
                          Val(found), p, frames - 1)

\* A chain of references that visits more steps than the program has runs
\* through a cycle and never returns: the interpreter raises RecursionError
\* at its recursion limit.
StartTimeRaises(step, track_steps, p) ==
    ~RecursionEnds(step, track_steps, p, Cardinality(StepPositions(p)))

RECURSIVE calculate_step_start_time(_, _, _)
\* The value returned where StartTimeRaises is FALSE.
calculate_step_start_time(step, track_steps, p) ==
    LET start_trigger == step.startTrigger
        trigger_type == Get(start_trigger, "type", "programStart")
        referenced_step_id == Get(start_trigger, "stepId", "")
        offset_seconds == Get(start_trigger, "offsetSeconds", 0)
        found == ReferencedTrackSteps(track_steps, p, referenced_step_id)
    IN IF trigger_type = "programStart" THEN Max(0, offset_seconds)
       ELSE IF trigger_type \in { "afterStep", "afterStepWithBuffer" }
       THEN IF referenced_step_id = "" \/ found = None THEN 0
            ELSE LET referenced_step == Val(FirstWithId(Val(found), referenced_step_id))
                     referenced_start_time ==
                        calculate_step_start_time(referenced_step, Val(found), p)
                 IN IF Get(start_trigger, "event", "end") = "start"
                    THEN Max(0, referenced_start_time + offset_seconds)
                    ELSE Max(0, referenced_start_time
                                    + parse_duration_to_seconds(referenced_step.duration)
                                    + offset_seconds)
       ELSE 0

\* step_timings of a track, in document order
step_timings(track, p) ==
    [k \in DOMAIN track.steps |->
        [stepId |-> track.steps[k].stepId,
         startTime |-> calculate_step_start_time(track.steps[k], track.steps, p),
         endTime |-> calculate_step_start_time(track.steps[k], track.steps, p)
                        + parse_duration_to_seconds(track.steps[k].duration)]]

RECURSIVE InsertByStartTime(_, _)
InsertByStartTime(sorted, x) ==
    IF sorted = << >> THEN << x >>
    ELSE IF Head(sorted).startTime <= x.startTime
    THEN << Head(sorted) >> \o InsertByStartTime(Tail(sorted), x)
    ELSE << x >> \o sorted

RECURSIVE SortByStartTime(_)
\* list.sort(key=startTime): stable
SortByStartTime(timings) ==
    IF timings = << >> THEN << >>
    ELSE InsertByStartTime(SortByStartTime(SubSeq(timings, 1, Len(timings) - 1)),
                           timings[Len(timings)])

\* "Check for overlaps" in a sorted list of timings
AdjacentOverlaps(t, sorted) ==
    { Error("overlap", t, sorted[i].stepId, sorted[i + 1].stepId,
            sorted[i].endTime - sorted[i + 1].startTime) :
        i \in { j \in 1..(Len(sorted) - 1) : sorted[j].endTime > sorted[j + 1].startTime } }

\* validate_track_step_overlaps raises: a step of a track of several steps
\* has a start time whose computation raises.
OverlapCheckRaises(p) ==
    \E t \in DOMAIN p.tracks :
        /\ Len(p.tracks[t].steps) > 1
        /\ \E k \in DOMAIN p.tracks[t].steps :
                StartTimeRaises(p.tracks[t].steps[k], p.tracks[t].steps, p)

validate_track_step_overlaps(p) ==
    UNION { IF Len(p.tracks[t].steps) <= 1 THEN { }
            ELSE AdjacentOverlaps(t, SortByStartTime(step_timings(p.tracks[t], p))) :
            t \in DOMAIN p.tracks }

\* The errors of perform_additional_validations, as a set: the documents have
\* no track templates, so that check adds nothing.
perform_additional_validations(p, strict) ==
    { Error("duplicate_step_id", 0, id, "", step_id_count(p, id)) :
        id \in { i \in step_ids(p) : step_id_count(p, i) > 1 } }
    \cup { Error("unknown_step_id", 0, ref_id, "", 0) :
            ref_id \in referenced_step_ids(p) \ step_ids(p) }
    \cup (IF strict \/ (p.actors = Absent /\ p.environment = "")
          THEN { Error("undefined_task", 0, task_type, "", 0) :
                    task_type \in task_types_in_steps(p) \ task_types_in_constraints(p) }
          ELSE { })
    \cup (IF p.environment # "" /\ p.environment \notin DOMAIN Environments
          THEN { Error("environment_not_found", 0, p.environment, "", 0) }
          ELSE { })
    \cup validate_track_step_overlaps(p)

----------------------------------------------------------------------------
(* The documents given to the validator: one track with the steps X and Y. *)

\* The ways the step X names the task "mix".
TaskUses ==
    { "none", "task", "tasks", "taskResources", "preBuffer.tasks", "postBuffer.tasks",
      "preBuffer.taskResources", "postBuffer.taskResources" }

StepUsing(id, dur, trig, use) ==
    [preBuffer |-> Buffer(IF use = "preBuffer.tasks" THEN << "mix" >> ELSE << >>,
                          IF use = "preBuffer.taskResources"
                          THEN << [name |-> "mix", fraction |-> One] >> ELSE << >>),
     postBuffer |-> Buffer(IF use = "postBuffer.tasks" THEN << "mix" >> ELSE << >>,
                           IF use = "postBuffer.taskResources"
                           THEN << [name |-> "mix", fraction |-> One] >> ELSE << >>)]
    @@ StepData(id, dur, trig,
                IF use = "task" THEN "mix" ELSE "",
                IF use = "tasks" THEN << "mix" >> ELSE << >>,
                IF use = "taskResources" THEN << [name |-> "mix", fraction |-> One] >>
                ELSE << >>)

XDurations ==
    { DurFixed(3), DurVariable(1, 5, 3, ""), DurVariable(4, 5, 3, ""),
      DurVariable(1, 2, 3, ""), DurIndefinite(1, 3, "") }

XTriggers ==
    { TrigProgramStart, [type |-> "programStart", offsetSeconds |-> 2] }

YTriggers ==
    { TrigProgramStart,
      TrigAfterStep("X"), TrigAfterStepEvent("X", "start", 1),
      TrigAfterStep(NoSuchId), TrigAfterStepWithBuffer(NoSuchId, 1),
      TrigOnAbort(NoSuchId),
      TrigComposite("all", << TrigProgramStart, TrigAfterStep(NoSuchId) >>) }

ValidatePrograms ==
    { [name |-> "validated", startTrigger |-> "programStart", actors |-> actors,
       environment |-> environment, environmentType |-> environmentType,
       resourceConstraints |-> constraints,
       tracks |-> << Track("t", << StepUsing("X", xdur, xtrig, use),
                                   StepUsing(yid, DurFixed(2), ytrig, "none") >>) >>] :
        actors \in { Absent, 2 }, environment \in { "", "bakery" },
        environmentType \in { "", "test" },
        constraints \in { << >>, << Constraint("mix", 1, Absent, << >>) >> },
        xdur \in XDurations, xtrig \in XTriggers, use \in TaskUses,
        yid \in { "Y", "X" }, ytrig \in YTriggers }

\* Programs whose afterStep references run in a circle or not: X and Y in
\* one track, with or without a second track of the steps Z and W.
CycleTriggers ==
    { TrigProgramStart, TrigAfterStep("X"), TrigAfterStep("Y"), TrigAfterStep("Z"),
      TrigAfterStepEvent("X", "start", 1) }

CyclePrograms ==
    { [name |-> "circle", startTrigger |-> "programStart", actors |-> 2,
       environment |-> "", environmentType |-> "", resourceConstraints |-> << >>,
       tracks |-> << Track("t", << StepUsing("X", DurFixed(3), xtrig, "none") >>
                                    \o more) >>
                     \o (IF ztrig = TrigProgramStart THEN << >>
                         ELSE << Track("u", << StepUsing("Z", DurFixed(2), ztrig, "none"),
                                               StepUsing("W", DurFixed(2), TrigAfterStep("Z"),
                                                         "none") >>) >>)] :
        xtrig \in CycleTriggers, ztrig \in CycleTriggers,
        more \in { << >> } \cup { << StepUsing("Y", DurFixed(2), ytrig, "none") >> :
                                    ytrig \in CycleTriggers } }

\* No ProgramRunner is built: the validator reads the document only.
InitValidate ==
    /\ program \in ValidatePrograms \cup CyclePrograms
    /\ runner = None
    /\ auto_start = FALSE
    /\ started = FALSE
    /\ time_scale = MinTimeScale
    /\ wall = 0
    /\ is_running = FALSE
    /\ program_start_time = None
    /\ current_time = 0
    /\ status = << >>
    /\ start_time = << >>
    /\ end_time = << >>
    /\ expected_end_time = << >>
    /\ resource_usage = << >>
    /\ actor_usage_by_type = << >>
    /\ command_queue = << >>
    /\ crashed = FALSE
    /\ code_runs = << >>
    /\ processed = << >>
    /\ charged = << >>
    /\ attempts = << >>
    /\ logic_errors = None
    /\ optimized_program = None

\* validate_program_file_structured: the logic errors of the program, with
\* and without --strict; no errors are returned when the call raises.
Validate ==
    /\ logic_errors = None
    /\ \E strict \in BOOLEAN :
        logic_errors' = Some([strict |-> strict,
                              raised |-> OverlapCheckRaises(program),
                              errors |-> IF OverlapCheckRaises(program) THEN { }
                                         ELSE perform_additional_validations(program,
                                                                             strict)])
    /\ UNCHANGED << program, runner, auto_start, started, time_scale, wall, is_running,
                    program_start_time, current_time, status, start_time, end_time,
                    expected_end_time, resource_usage, actor_usage_by_type,
                    command_queue, crashed, code_runs, processed, charged, attempts,
                    optimized_program >>

NextValidate == Validate

SpecValidate == InitValidate /\ [][NextValidate]_vars

----------------------------------------------------------------------------
\* The trigger documents of a step: the trigger itself, or the children of a
\* trigger with a logic.
TriggerDocs(trig) == IF IsMultiTrigger(trig) THEN Range(trig.triggers) ELSE { trig }

\* The step ids the triggers of a step refer to.
ReferencedBy(step) ==
    { trig.stepId : trig \in { d \in TriggerDocs(step.startTrigger) :
                                d.type \in { "afterStep", "afterStepWithBuffer", "onAbort" } } }

Reported == Val(logic_errors).errors

(* C24: the semantic validation reports an error for every step id that a
   trigger refers to and no step has, whether the trigger is afterStep,
   afterStepWithBuffer or onAbort, and whether it is the trigger of the step
   or a child of a trigger with a logic. *)
C24_UnknownStepIdsReported ==
    logic_errors # None
    => \A pos \in StepPositions(program) :
        \A ref_id \in ReferencedBy(StepAt(program, pos)) \ step_ids(program) :
            \E e \in Reported : e.kind = "unknown_step_id" /\ e.subject = ref_id

\* The tasks a step uses: through task, tasks, taskResources and its buffers.
UsedTasks(step) ==
    Range(StepTaskTypes(step)) \cup BufferedTaskTypes(step)

(* C25: for a program with neither an environment nor an actors count the
   semantic validation reports an error for every task that a step uses,
   through task, tasks or taskResources or in its pre- or post-buffer, and
   that the constraints do not declare. *)
C25_UndeclaredTasksReported ==
    (logic_errors # None /\ program.actors = Absent /\ program.environment = "")
    => \A pos \in StepPositions(program) :
        \A task \in UsedTasks(StepAt(program, pos)) \ TasksOf(program.resourceConstraints) :
            \E e \in Reported : e.kind = "undefined_task" /\ e.subject = task

\* A program that declares only environmentType and names tasks in a
\* pre-buffer, with unique step ids, resolved references and no overlap.
OnlyEnvironmentType ==
    /\ program.environmentType # ""
    /\ program.environment = ""
    /\ program.actors = Absent
    /\ program.resourceConstraints = << >>
    /\ \E pos \in StepPositions(program) : PreBuffer(StepAt(program, pos)).tasks # << >>
    /\ \A id \in step_ids(program) : step_id_count(program, id) = 1
    /\ \A pos \in StepPositions(program) :
            ReferencedBy(StepAt(program, pos)) \subseteq step_ids(program)
    /\ validate_track_step_overlaps(program) = { }

(* C26: validation without --strict accepts a program that declares only
   environmentType (no environment, no actors, no resourceConstraints) and
   whose pre-buffers name tasks, when its step ids are unique and its
   references resolve: it reports no logic error. *)
C26_EnvironmentTypeOnlyAccepted ==
    (logic_errors # None /\ ~Val(logic_errors).strict /\ OnlyEnvironmentType)
    => Reported = { }

\* minSeconds <= defaultSeconds <= maxSeconds
DefaultInBounds(duration) ==
    duration.minSeconds <= duration.defaultSeconds
        /\ duration.defaultSeconds <= duration.maxSeconds

\* The same document with the default of every Variable duration that is out
\* of bounds moved to the minimum.
WithDefaultsInBounds(p) ==
    [p EXCEPT !.tracks =
        [t \in DOMAIN p.tracks |->
            [p.tracks[t] EXCEPT !.steps =
                [k \in DOMAIN p.tracks[t].steps |->
                    IF p.tracks[t].steps[k].duration.type = "variable"
                        /\ ~DefaultInBounds(p.tracks[t].steps[k].duration)
                    THEN [p.tracks[t].steps[k] EXCEPT !.duration.defaultSeconds =
                                p.tracks[t].steps[k].duration.minSeconds]
                    ELSE p.tracks[t].steps[k]]]]]

(* C27: validation reports an error for a step whose Variable duration does
   not satisfy minSeconds <= defaultSeconds <= maxSeconds: the errors of such
   a program include one that the same program with the default in bounds
   does not get. *)
C27_VariableBoundsReported ==
    (/\ logic_errors # None
     /\ \E pos \in StepPositions(program) :
            /\ StepAt(program, pos).duration.type = "variable"
            /\ ~DefaultInBounds(StepAt(program, pos).duration))
    => \E e \in Reported :
            e \notin perform_additional_validations(WithDefaultsInBounds(program),
                                                    Val(logic_errors).strict)

\* The default duration of a duration document: seconds of a fixed one,
\* defaultSeconds of a variable or indefinite one.
DefaultDuration(duration) ==
    IF duration.type = "fixed" THEN duration.seconds ELSE duration.defaultSeconds

\* The timings of a track whose ends are start + default duration.
DefaultTimings(track, p) ==
    [k \in DOMAIN track.steps |->
        [stepId |-> track.steps[k].stepId,
         startTime |-> calculate_step_start_time(track.steps[k], track.steps, p),
         endTime |-> calculate_step_start_time(track.steps[k], track.steps, p)
                        + DefaultDuration(track.steps[k].duration)]]

(* C28: the overlap check of a track takes the end of a step as its start
   plus its default duration (seconds of a Fixed duration, defaultSeconds of
   a Variable or Indefinite one), sorts the steps by start and reports
   exactly the adjacent pairs with prev.end > next.start, each with the
   amount prev.end - next.start. *)
C28_OverlapsUseDefaultDuration ==
    logic_errors # None
    => \A t \in DOMAIN program.tracks :
        Len(program.tracks[t].steps) > 1
        => { e \in Reported : e.kind = "overlap" /\ e.track = t }
                = AdjacentOverlaps(t, SortByStartTime(DefaultTimings(program.tracks[t],
                                                                     program)))

----------------------------------------------------------------------------
\* The start time the validator computes for the step document with that id.
SymbolicStart(step_id) ==
    LET pos == CHOOSE q \in StepPositions(program) : StepAt(program, q).stepId = step_id
    IN calculate_step_start_time(StepAt(program, pos), program.tracks[pos[1]].steps,
                                 program)

\* What the ticks can put between the two times: a step starts in the first
\* update() after it became ready, and a fixed step ends up to NearZero early.
StartLag == 3 * (MaxDeltaSeq + NearZero)

Distance(a, b) == IF a >= b THEN a - b ELSE b - a

(* C29: on a program without contention and without manual triggers the
   start time the validator computes for a step is the start time the runner
   records for it, counted from the program start, for programStart,
   programStartOffset and afterStep triggers with any event and offset: the
   two differ by no more than the ticks allow. *)
C29_SymbolicStartIsRecordedStart ==
    \A i \in LiveSet :
        start_time[i] # None
        => Distance(Val(start_time[i]) - Val(program_start_time),
                    SymbolicStart(Objs[i].step_id)) <= StartLag

----------------------------------------------------------------------------
(* program_planner.py.  The documents planned here carry no legacy "trigger"
   and no legacy "after" key, and their afterStep triggers name steps of
   their own track. *)

\* An environment document given to the planner.
PlannerEnvironment(type, constraints, equipment) ==
    [type |-> type, resourceConstraints |-> constraints, equipment |-> equipment]

RECURSIVE Flatten(_)
Flatten(seqs) == IF seqs = << >> THEN << >> ELSE Head(seqs) \o Flatten(Tail(seqs))

RECURSIVE SumOver(_, _)
\* The sum of f[x] over the elements of a set.
SumOver(f, set) ==
    IF set = { } THEN 0
    ELSE LET x == CHOOSE y \in set : TRUE IN f[x] + SumOver(f, set \ { x })

\* track.get("id", ""), step.get("id", "")
PlannerId(d) == Get(d, "id", "")

\* step.get("priority", 100)
PlannerPriority(step) ==
    IF Get(step, "priority", Absent) = Absent THEN DefaultPriority ELSE step.priority

\* step.get("resources", [])
PlannerResources(step) == Get(step, "resources", << >>)

RECURSIVE DictOf(_, _)
\* The values of a dict filled in the order of a list under the key "id": a
\* later document of a key replaces the earlier one, at the place of the first.
DictOf(items, k) ==
    IF k > Len(items) THEN << >>
    ELSE (IF \E j \in 1..(k - 1) : PlannerId(items[j]) = PlannerId(items[k])
          THEN << >>
          ELSE << items[CHOOSE j \in k..Len(items) :
                            /\ PlannerId(items[j]) = PlannerId(items[k])
                            /\ \A i \in k..Len(items) :
                                    PlannerId(items[i]) = PlannerId(items[k]) => i <= j] >>)
         \o DictOf(items, k + 1)

\* self.steps: for every track id the steps of the last track of that id
_extract_steps(p) ==
    [k \in DOMAIN DictOf(p.tracks, 1) |->
        [track_id |-> PlannerId(DictOf(p.tracks, 1)[k]),
         steps |-> DictOf(DictOf(p.tracks, 1)[k].steps, 1)]]

\* The step documents of self.steps.
ExtractedSteps(p) ==
    Flatten([k \in DOMAIN _extract_steps(p) |-> _extract_steps(p)[k].steps])

\* Step.calculate_duration: the optimal duration
calculate_duration(step) ==
    IF "number" \in DOMAIN step.duration THEN step.duration.number
    ELSE IF step.duration.type = "fixed"
    THEN (IF step.duration.seconds = Absent THEN 0 ELSE step.duration.seconds)
    ELSE IF step.duration.defaultSeconds # Absent THEN step.duration.defaultSeconds
    ELSE (step.duration.minSeconds + step.duration.maxSeconds) \div 2

\* Step.get_max_duration
get_max_duration(step) ==
    IF "number" \in DOMAIN step.duration THEN step.duration.number
    ELSE IF step.duration.type = "fixed"
    THEN (IF step.duration.seconds = Absent THEN 0 ELSE step.duration.seconds)
    ELSE IF step.duration.maxSeconds = Absent THEN 0 ELSE step.duration.maxSeconds

\* The resource ids simulate_execution adds usage for: the resources of the
\* step, then its task.
UsedByStep(step) ==
    PlannerResources(step)
        \o (IF Get(step, "task", "") # "" THEN << step.task >> ELSE << >>)

\* self.program.get("tracks", [{}])[0].get("startTime", 0)
TrackStartTime(p) == IF p.tracks = << >> THEN 0 ELSE Get(p.tracks[1], "startTime", 0)

\* Step._extract_dependencies: the step id an afterStep trigger names, "" for
\* no dependency
PlannerDependency(step) ==
    LET start_trigger == Get(step, "startTrigger", << >>)
    IN IF Get(start_trigger, "type", "") \in { "afterStep", "afterStepWithBuffer" }
       THEN Get(start_trigger, "stepId", "")
       ELSE ""

\* _can_start in the round that follows the one of the previous step: the
\* previous step of the track is completed, and so are all steps before it,
\* so a dependency is completed exactly when it is one of them.
CanStart(steps, k) ==
    \/ PlannerDependency(steps[k]) = ""
    \/ \E j \in 1..(k - 1) : PlannerId(steps[j]) = PlannerDependency(steps[k])

\* The number of steps of a track simulate_execution schedules: a step that
\* can never start keeps every later step of its track from starting.
ScheduledCount(steps) ==
    CHOOSE n \in 0..Len(steps) :
        /\ \A k \in 1..n : CanStart(steps, k)
        /\ n < Len(steps) => ~CanStart(steps, n + 1)

RECURSIVE _calculate_start_time(_, _, _)
\* The maximum of the start time of the first track and the end of the
\* previous step; the end of a dependency is never later than that.
_calculate_start_time(p, steps, k) ==
    IF k = 1 THEN TrackStartTime(p)
    ELSE Max(TrackStartTime(p),
             _calculate_start_time(p, steps, k - 1) + calculate_duration(steps[k - 1]))

\* The calls of add_usage for the scheduled steps, with the optimal duration
\* or, for the worst case, with the maximal one.
SimulatedUsage(p, worst) ==
    Flatten([t \in DOMAIN _extract_steps(p) |->
        Flatten([k \in 1..ScheduledCount(_extract_steps(p)[t].steps) |->
            [r \in DOMAIN UsedByStep(_extract_steps(p)[t].steps[k]) |->
                [start |-> _calculate_start_time(p, _extract_steps(p)[t].steps, k),
                 end |-> _calculate_start_time(p, _extract_steps(p)[t].steps, k)
                            + (IF worst
                               THEN get_max_duration(_extract_steps(p)[t].steps[k])
                               ELSE calculate_duration(_extract_steps(p)[t].steps[k])),
                 resource |-> UsedByStep(_extract_steps(p)[t].steps[k])[r]]]])])

\* The calls of add_usage on self.resource_usage
planner_resource_usage(p) == SimulatedUsage(p, FALSE)

\* The calls of add_usage on self.max_resource_usage
planner_max_resource_usage(p) == SimulatedUsage(p, TRUE)

\* current_usage[resource] after the changes of all time points up to t
UsageCount(usages, resource, t) ==
    Cardinality({ i \in DOMAIN usages : usages[i].resource = resource /\ usages[i].start <= t })
        - Cardinality({ i \in DOMAIN usages : usages[i].resource = resource /\ usages[i].end <= t })

\* ResourceUsage.calculate_usage_profile: the periods (resource, start, end,
\* count) between a time point that changes the resource and the next one
calculate_usage_profile(usages) ==
    LET time_points == { usages[i].start : i \in DOMAIN usages }
                            \cup { usages[i].end : i \in DOMAIN usages }
    IN { [resource |-> usages[c[1]].resource, start |-> c[2],
          end |-> CHOOSE n \in time_points :
                    n > c[2] /\ \A m \in time_points : m > c[2] => n <= m,
          count |-> UsageCount(usages, usages[c[1]].resource, c[2])] :
            c \in { d \in (DOMAIN usages) \X time_points :
                        /\ \E n \in time_points : n > d[2]
                        /\ usages[d[1]].start = d[2] \/ usages[d[1]].end = d[2]
                        /\ UsageCount(usages, usages[d[1]].resource, d[2]) > 0 } }

\* ResourceUsage.find_bottlenecks
find_bottlenecks(usages, threshold) ==
    { b \in calculate_usage_profile(usages) : b.count >= threshold }

\* task_limits[resource], equipment_limits[resource]: the last entry of the id
LimitOf(entries, key, resource) ==
    LET idx == { i \in DOMAIN entries : entries[i][key] = resource }
        last == CHOOSE i \in idx : \A j \in idx : j <= i
    IN IF entries[last].maxConcurrent = Absent THEN Infinity
       ELSE entries[last].maxConcurrent

OverLimit(entries, key, b) ==
    /\ \E i \in DOMAIN entries : entries[i][key] = b.resource
    /\ b.count > LimitOf(entries, key, b.resource)

\* "Find bottlenecks based on environment constraints"
ConstraintBottlenecks(p, environment) ==
    IF environment = None THEN { }
    ELSE IF Val(environment).resourceConstraints = << >>
            /\ Val(environment).equipment = << >>
    THEN { }
    ELSE { b \in calculate_usage_profile(planner_resource_usage(p)) :
            \/ OverLimit(Val(environment).resourceConstraints, "task", b)
            \/ OverLimit(Val(environment).equipment, "id", b) }

\* set(b[0] for b in combined_bottlenecks)
bottleneck_resources(p, environment) ==
    { b.resource : b \in ConstraintBottlenecks(p, environment)
                            \cup find_bottlenecks(planner_max_resource_usage(p), 2) }

\* The tracks of a program some step of which lists the resource.
TracksUsing(tracks, resource) ==
    { i \in DOMAIN tracks :
        \E k \in DOMAIN tracks[i].steps :
            resource \in Range(PlannerResources(tracks[i].steps[k])) }

\* track_priorities[i] < track_priorities[j]: averages of the priorities of
\* the steps, 100 for a track without steps
AveragePriorityLess(tracks, i, j) ==
    LET Total(t) == IF tracks[t].steps = << >> THEN DefaultPriority
                    ELSE SumOver([k \in DOMAIN tracks[t].steps |->
                                    PlannerPriority(tracks[t].steps[k])],
                                 DOMAIN tracks[t].steps)
        Count(t) == IF tracks[t].steps = << >> THEN 1 ELSE Len(tracks[t].steps)
    IN Total(i) * Count(j) < Total(j) * Count(i)

\* The place of a track in track_indices after the stable sort by priority.
StaggerPlace(tracks, resource, i) ==
    Cardinality({ j \in TracksUsing(tracks, resource) :
                    \/ AveragePriorityLess(tracks, j, i)
                    \/ (~AveragePriorityLess(tracks, i, j) /\ j < i) })

stagger_interval ==
    5

_stagger_track_starts(p, resources) ==
    [p EXCEPT !.tracks =
        [i \in DOMAIN p.tracks |->
            LET using == { r \in resources :
                            i \in TracksUsing(p.tracks, r)
                                /\ StaggerPlace(p.tracks, r, i) > 0 }
            IN IF using = { } THEN p.tracks[i]
               ELSE [startTime |->
                        Get(p.tracks[i], "startTime", 0)
                            + SumOver([r \in using |->
                                        StaggerPlace(p.tracks, r, i) * stagger_interval],
                                      using)]
                    @@ p.tracks[i]]]

padding ==
    2

\* The step _stagger_step_starts inserts.
PaddingStep(track, step_index) ==
    [id |-> "padding_" \o PlannerId(track) \o "_" \o ToString(step_index),
     name |-> "Resource contention padding",
     duration |-> [number |-> padding],
     resources |-> << >>]

RECURSIVE InsertByPlannerPriority(_, _, _)
InsertByPlannerPriority(steps, sorted, k) ==
    IF sorted = << >> THEN << k >>
    ELSE IF PlannerPriority(steps[Head(sorted)]) <= PlannerPriority(steps[k])
    THEN << Head(sorted) >> \o InsertByPlannerPriority(steps, Tail(sorted), k)
    ELSE << k >> \o sorted

RECURSIVE BottleneckStepIndices(_, _, _)
\* bottleneck_step_indices: the indices, from 0, of the first k steps that list
\* a bottleneck resource, sorted by priority
BottleneckStepIndices(steps, resources, k) ==
    IF k = 0 THEN << >>
    ELSE IF Range(PlannerResources(steps[k])) \cap resources # { }
    THEN InsertByPlannerPriority(steps, BottleneckStepIndices(steps, resources, k - 1), k)
    ELSE BottleneckStepIndices(steps, resources, k - 1)

RECURSIVE InsertPadding(_, _, _)
\* The loop over the indices the sort gave: the list the loop runs over is not
\* the one the loop body rebinds.
InsertPadding(track, steps, indices) ==
    IF indices = << >> THEN steps
    ELSE IF Head(indices) = 1 THEN InsertPadding(track, steps, Tail(indices))
    ELSE InsertPadding(track,
                       SubSeq(steps, 1, Head(indices) - 1)
                            \o << PaddingStep(track, Head(indices) - 1) >>
                            \o SubSeq(steps, Head(indices), Len(steps)),
                       Tail(indices))

_stagger_step_starts(p, resources) ==
    [p EXCEPT !.tracks =
        [i \in DOMAIN p.tracks |->
            [p.tracks[i] EXCEPT !.steps =
                InsertPadding(p.tracks[i], p.tracks[i].steps,
                              BottleneckStepIndices(p.tracks[i].steps, resources,
                                                    Len(p.tracks[i].steps)))]]]

\* First pass: a step without startTrigger gets programStart.
WithStartTrigger(step) ==
    IF "startTrigger" \in DOMAIN step THEN step
    ELSE [startTrigger |-> [type |-> "programStart"]] @@ step

\* step.get("stepId"), "" for None
PlannerStepId(step) == Get(step, "stepId", "")

\* step_id_to_index[id]: a later step of an id replaces the earlier one.
StepIdToIndex(steps, id) ==
    CHOOSE i \in DOMAIN steps :
        /\ PlannerStepId(steps[i]) = id
        /\ \A j \in DOMAIN steps : PlannerStepId(steps[j]) = id => j <= i

\* step["startTrigger"] = {"type": "afterStep", "stepId": prev_step.get("stepId")}
AfterPrevious(steps, i) ==
    [steps EXCEPT ![i].startTrigger =
        [type |-> "afterStep", stepId |-> PlannerStepId(steps[i - 1])]]

\* ref_step = steps.pop(ref_index); steps.insert(i - 1, ref_step), with i
\* counted from 0: for the first step the index -1 is the place before the
\* last element.
MoveBefore(steps, ref_index, i) ==
    LET popped == SubSeq(steps, 1, ref_index - 1)
                    \o SubSeq(steps, ref_index + 1, Len(steps))
        place == IF i = 1 THEN Len(popped) ELSE i - 1
    IN SubSeq(popped, 1, place - 1) \o << steps[ref_index] >>
            \o SubSeq(popped, place, Len(popped))

\* Second pass, the body of the loop for the step at index i of the list as
\* it is by then.
FixStep(steps, i) ==
    LET start_trigger == steps[i].startTrigger
        type == Get(start_trigger, "type", "")
        referenced_step_id == Get(start_trigger, "stepId", "")
    IN IF type \in { "afterStep", "afterStepWithBuffer" }
       THEN (IF \A j \in DOMAIN steps : PlannerStepId(steps[j]) # referenced_step_id
             THEN (IF i > 1 THEN AfterPrevious(steps, i)
                   ELSE [steps EXCEPT ![i].startTrigger = [type |-> "programStart"]])
             ELSE IF StepIdToIndex(steps, referenced_step_id) >= i
             THEN MoveBefore(steps, StepIdToIndex(steps, referenced_step_id), i)
             ELSE steps)
       ELSE IF i > 1 /\ type \in { "programStart", "manual" }
       THEN AfterPrevious(steps, i)
       ELSE steps

RECURSIVE FixSequencing(_, _)
FixSequencing(steps, i) ==
    IF i > Len(steps) THEN steps ELSE FixSequencing(FixStep(steps, i), i + 1)

\* Tracks of at most one step are skipped.
_fix_overlapping_steps(p) ==
    [p EXCEPT !.tracks =
        [t \in DOMAIN p.tracks |->
            IF Len(p.tracks[t].steps) <= 1 THEN p.tracks[t]
            ELSE [p.tracks[t] EXCEPT !.steps =
                    FixSequencing([k \in DOMAIN p.tracks[t].steps |->
                                        WithStartTrigger(p.tracks[t].steps[k])], 1)]]]

required_fields ==
    { "programId", "name", "description", "version", "environment",
      "environmentType", "actors", "duration", "startTrigger",
      "resourceConstraints", "trackTemplates", "metadata" }

\* A key is in a document when it is in the domain of the record.
_preserve_required_fields(self_program, p) ==
    LET copied == [f \in (required_fields \cap DOMAIN self_program) \ DOMAIN p |->
                        self_program[f]] @@ p
    IN IF /\ "environment" \in DOMAIN copied \/ "environmentType" \in DOMAIN copied
          /\ "resourceConstraints" \notin DOMAIN self_program
          /\ "resourceConstraints" \in DOMAIN copied
       THEN [f \in DOMAIN copied \ { "resourceConstraints" } |-> copied[f]]
       ELSE copied

\* Both stagger functions return at once when there is no bottleneck.
Staggered(p, resources) ==
    IF resources = { } THEN p
    ELSE _stagger_step_starts(_stagger_track_starts(p, resources), resources)

\* self.program is bound to the copy before the copy is changed, so
\* _preserve_required_fields compares the optimized program with itself.
optimize_schedule(p, environment) ==
    _preserve_required_fields(
        Staggered(_fix_overlapping_steps(p),
                  bottleneck_resources(_fix_overlapping_steps(p), environment)),
        Staggered(_fix_overlapping_steps(p),
                  bottleneck_resources(_fix_overlapping_steps(p), environment)))

\* ProgramPlanner.__init__ raises ValueError when the types differ, and
\* calculate_duration raises TypeError for a duration that is neither fixed
\* nor variable.
PlannerRaises(p, environment) ==
    \/ /\ environment # None
       /\ Get(p, "environmentType", "") # ""
       /\ Val(environment).type # ""
       /\ p.environmentType # Val(environment).type
    \/ \E k \in DOMAIN ExtractedSteps(p) :
        /\ "type" \in DOMAIN ExtractedSteps(p)[k].duration
        /\ ExtractedSteps(p)[k].duration.type \notin { "fixed", "variable" }

\* plan_program: the saved program, or nothing after "Error planning program".
plan_program(p, environment) ==
    IF PlannerRaises(p, environment) THEN None
    ELSE Some(optimize_schedule(p, environment))

----------------------------------------------------------------------------
(* The documents given to the planner: two tracks whose steps consume
   "oven".  A key the document does not have is not in the record. *)

OvenEnvironment ==
    PlannerEnvironment("kitchen", << Constraint("oven", 1, Absent, << >>) >>, << >>)

\* The step names "oven" as its task, in its resources, or both; the
\* documents with the key "id" carry it beside stepId and trackId.
OvenStep(id, keys, use, dur, priority) ==
    (IF keys = "id" THEN [id |-> id] ELSE << >>)
    @@ (IF use \in { "resources", "both" } THEN [resources |-> << "oven" >>] ELSE << >>)
    @@ [StepData(id, dur, TrigProgramStart,
                 IF use \in { "task", "both" } THEN "oven" ELSE "", << >>, << >>)
            EXCEPT !.priority = priority]

OvenTrack(id, keys, step) ==
    (IF keys = "id" THEN [id |-> id] ELSE << >>) @@ Track(id, << step >>)

\* A program document with the keys environmentType, environment and
\* resourceConstraints only where they are given.
OvenProgram(environmentType, environment, constraints, tracks) ==
    (IF environmentType # "" THEN [environmentType |-> environmentType] ELSE << >>)
    @@ (IF environment # "" THEN [environment |-> environment] ELSE << >>)
    @@ (IF constraints # << >> THEN [resourceConstraints |-> constraints] ELSE << >>)
    @@ [name |-> "ovens", tracks |-> tracks]

PlanPrograms ==
    { OvenProgram(environmentType, "", << >>,
                  << OvenTrack("first", keys, OvenStep("bake1", keys, use, d1, Absent)),
                     OvenTrack("second", keys, OvenStep("bake2", keys, use, d2, p2)) >>) :
        environmentType \in { "", "kitchen", "lab" },
        keys \in { "stepId", "id" }, use \in { "task", "resources", "both" },
        d1 \in { DurFixed(3), DurFixed(8) },
        d2 \in { DurFixed(3), DurFixed(8), DurVariable(2, 6, 4, "") },
        p2 \in { Absent, 50 } }

\* Programs that give their constraints inline, refer to an environment, or
\* both.
InlinePrograms ==
    { OvenProgram(environmentType, environment, constraints,
                  << OvenTrack("first", "id", OvenStep("bake1", "id", use, DurFixed(3), Absent)),
                     OvenTrack("second", "id", OvenStep("bake2", "id", use, DurFixed(3), Absent)) >>) :
        environmentType \in { "", "kitchen" }, environment \in { "", "bakery" },
        constraints \in { << >>, << Constraint("oven", 1, Absent, << >>) >> },
        use \in { "task", "resources" } }

\* A step with the keys id and stepId that lists "oven" in its resources or
\* uses nothing.
PadStep(id, resources, seconds, trig) ==
    [id |-> id, resources |-> resources]
        @@ StepData(id, DurFixed(seconds), trig, "", << >>, << >>)

\* Programs with a track of two steps, the second of which uses "oven" while
\* the step of the other track does.
PadPrograms ==
    { OvenProgram("", "", << >>,
                  << OvenTrack("first", "id", PadStep("bake", << "oven" >>, d1, TrigProgramStart)),
                     [id |-> "second"]
                        @@ Track("second", << PadStep("mix", << >>, 3, t1),
                                              PadStep("roast", << "oven" >>, d2, t2) >>) >>) :
        d1 \in { 2, 4, 8 }, d2 \in { 1, 3 },
        t1 \in { TrigProgramStart, TrigAfterStep("roast"), TrigAfterStep("gone") },
        t2 \in { TrigProgramStart, TrigManual, TrigAfterStep("mix"),
                  TrigAfterStep("gone") } }

\* No ProgramRunner is built: the planner reads the document only.
InitPlan ==
    /\ program \in PlanPrograms \cup InlinePrograms \cup PadPrograms
    /\ runner = None
    /\ auto_start = FALSE
    /\ started = FALSE
    /\ time_scale = MinTimeScale
    /\ wall = 0
    /\ is_running = FALSE
    /\ program_start_time = None
    /\ current_time = 0
    /\ status = << >>
    /\ start_time = << >>
    /\ end_time = << >>
    /\ expected_end_time = << >>
    /\ resource_usage = << >>
    /\ actor_usage_by_type = << >>
    /\ command_queue = << >>
    /\ crashed = FALSE
    /\ code_runs = << >>
    /\ processed = << >>
    /\ charged = << >>
    /\ attempts = << >>
    /\ logic_errors = None
    /\ optimized_program = None

\* plan_program with or without an environment file.
Plan ==
    /\ optimized_program = None
    /\ \E environment \in { None, Some(OvenEnvironment) } :
        optimized_program' = Some([environment |-> environment,
                                   saved |-> plan_program(program, environment),
                                   again |-> None])
    /\ UNCHANGED << program, runner, auto_start, started, time_scale, wall, is_running,
                    program_start_time, current_time, status, start_time, end_time,
                    expected_end_time, resource_usage, actor_usage_by_type,
                    command_queue, crashed, code_runs, processed, charged, attempts,
                    logic_errors >>

\* plan_program on the file the first call saved, with the same environment.
Replan ==
    /\ optimized_program # None
    /\ Val(optimized_program).saved # None
    /\ Val(optimized_program).again = None
    /\ optimized_program' =
            Some([Val(optimized_program) EXCEPT
                    !.again = Some(plan_program(Val(Val(optimized_program).saved),
                                                Val(optimized_program).environment))])
    /\ UNCHANGED << program, runner, auto_start, started, time_scale, wall, is_running,
                    program_start_time, current_time, status, start_time, end_time,
                    expected_end_time, resource_usage, actor_usage_by_type,
                    command_queue, crashed, code_runs, processed, charged, attempts,
                    logic_errors >>

NextPlan == Plan \/ Replan

SpecPlan == InitPlan /\ [][NextPlan]_vars

----------------------------------------------------------------------------
\* plan_program was given the environment that allows one "oven" at a time
\* and saved a program.
PlannedWithOven ==
    /\ optimized_program # None
    /\ Val(optimized_program).environment = Some(OvenEnvironment)
    /\ Val(optimized_program).saved # None

Saved == Val(Val(optimized_program).saved)

\* The steps of a program that consume "oven", with the interval their
\* trigger and their duration give them.
OvenIntervals(p) ==
    { [track |-> pos[1],
       start |-> StartOffset(StepAt(p, pos).startTrigger),
       end |-> StartOffset(StepAt(p, pos).startTrigger)
                    + calculate_duration(StepAt(p, pos))] :
        pos \in { q \in StepPositions(p) : "oven" \in Range(UsedByStep(StepAt(p, q))) } }

(* C30: for two tracks with one step each, both steps consuming "oven"
   (max_concurrent 1), starting at the program start and of the same
   priority, the program the planner saves gives the step of the second
   track the trigger programStartOffset(5), and no two oven steps of the
   saved program overlap in time. *)
C30_SecondOvenStepOffsetFive ==
    (PlannedWithOven /\ program.tracks[2].steps[1].priority = Absent)
    => /\ Saved.tracks[2].steps[1].startTrigger.type = "programStartOffset"
       /\ Saved.tracks[2].steps[1].startTrigger.offsetSeconds = 5
       /\ \A a, b \in OvenIntervals(Saved) :
            a.track # b.track => (a.end <= b.start \/ b.end <= a.start)

\* The saved program has a key.
SavedHas(field) ==
    /\ optimized_program # None
    /\ Val(optimized_program).saved # None
    /\ field \in DOMAIN Saved

(* C31: for every input program, the program the planner saves never has
   both inline resourceConstraints and an environment reference
   (environment or environmentType). *)
C31_NeverConstraintsAndEnvironment ==
    ~(SavedHas("resourceConstraints")
        /\ (SavedHas("environment") \/ SavedHas("environmentType")))

\* The saved program was planned again, and a program was saved again.
Replanned ==
    /\ optimized_program # None
    /\ Val(optimized_program).saved # None
    /\ Val(optimized_program).again # None
    /\ Val(Val(optimized_program).again) # None

SavedAgain == Val(Val(Val(optimized_program).again))

\* The planner finds no bottleneck when it simulates the program.
NoBottleneckRemains(p, environment) ==
    bottleneck_resources(_fix_overlapping_steps(p), environment) = { }

\* A document without its metadata.
UpToMetadata(p) == [f \in DOMAIN p \ { "metadata" } |-> p[f]]

(* C32: planning is a fixed point on its own stable output: when the
   planner finds no bottleneck in a program p it saved, planning p again
   saves a program equal to p up to metadata, with no further track start
   offset and no further padding step. *)
C32_ReplanningStableOutputIsFixedPoint ==
    (Replanned /\ NoBottleneckRemains(Saved, Val(optimized_program).environment))
    => UpToMetadata(SavedAgain) = UpToMetadata(Saved)

\* plan_program saved a program.
Planned ==
    /\ optimized_program # None
    /\ Val(optimized_program).saved # None

\* The resources with an interval in which the simulated concurrent use
\* exceeds the maxConcurrent the environment gives them.
ExceedingResources(p, environment) ==
    { b.resource : b \in ConstraintBottlenecks(_fix_overlapping_steps(p), environment) }

\* A track start was written or a padding step inserted.
StaggerAdded(before, after) ==
    \/ \E t \in DOMAIN after.tracks : "startTime" \in DOMAIN after.tracks[t]
    \/ \E t \in DOMAIN after.tracks :
            Len(after.tracks[t].steps) # Len(before.tracks[t].steps)

(* C36: every bottleneck the planner staggers or pads for is an interval in
   which the simulated concurrent use of a task or equipment id exceeds the
   max_concurrent of that resource; planning without environment
   constraints finds no bottleneck and adds no stagger and no padding. *)
C36_BottlenecksExceedMaxConcurrent ==
    Planned
    => /\ bottleneck_resources(_fix_overlapping_steps(program),
                               Val(optimized_program).environment)
            \subseteq ExceedingResources(program, Val(optimized_program).environment)
       /\ Val(optimized_program).environment = None => ~StaggerAdded(program, Saved)

\* The tasks a constraint of the program or of its environment is known for.
KnownConstraints ==
    TasksOf(program.resourceConstraints) \cup TasksOf(load_resource_constraints(program))

\* The step of an admission attempt declares a task without known constraint.
DeclaresUnknownTask(e) ==
    \E k \in DOMAIN Objs[e.obj].task_types :
        Objs[e.obj].task_types[k] \notin KnownConstraints

(* C33: outside the actors-only fallback, a ready step that declares a task
   with no known constraint is rejected and stays Pending, whichever of
   `task`, `tasks` and `taskResources` declares the task. *)
C33_UnknownTaskRejected ==
    ~ActorsOnly =>
        \A k \in DOMAIN attempts :
            DeclaresUnknownTask(attempts[k])
                => /\ ~attempts[k].can_start
                   /\ attempts[k].status_after = "PENDING"

\* The queue holds one trigger command that names the trigger of the step and
\* no step id.
TriggerQueuedFor(i) ==
    /\ Len(command_queue) = 1
    /\ Head(command_queue).kind = "trigger"
    /\ Head(command_queue).name = Objs[i].manual_trigger_name
    /\ Head(command_queue).step_id = ""

\* The step is Indefinite, or Variable with its min elapsed before and after
\* the update().
MayEndManually(i) ==
    \/ Objs[i].duration_type = "INDEFINITE"
    \/ /\ Objs[i].duration_type = "VARIABLE"
       /\ current_time - Val(start_time[i]) >= Objs[i].min_seconds
       /\ current_time' - Val(start_time[i]) >= Objs[i].min_seconds

(* C34: an update() that drains a Trigger command whose name matches a
   Running step with Indefinite duration, or with Variable duration whose
   min has elapsed, ends that step as Completed, not as Aborted. *)
C34_TriggerCompletesRunningStep ==
    [][\A i \in LiveSet :
        (Ticked /\ Running(i) /\ TriggerQueuedFor(i) /\ MayEndManually(i))
        => status'[i] = "COMPLETED"]_vars

\* The commands of a queue, each processed once, the first one first: the
\* last command meets the state left by all the commands before it.
RECURSIVE DrainInOrder(_, _, _)
DrainInOrder(w, queue, now) ==
    IF Len(queue) = 0 THEN w
    ELSE ProcessCommand(DrainInOrder(w, SubSeq(queue, 1, Len(queue) - 1), now),
                        queue[Len(queue)], now)

\* The scheduler state after the step is the one of the record.
SchedulerStateIs(w) ==
    /\ status' = w.status
    /\ start_time' = w.start_time
    /\ end_time' = w.end_time
    /\ expected_end_time' = w.expected_end_time
    /\ resource_usage' = w.ru
    /\ actor_usage_by_type' = w.au
    /\ is_running' = w.is_running
    /\ program_start_time' = w.pst
    /\ current_time' = w.ct
    /\ crashed' = w.exc

(* C35: the commands on the queue are each processed exactly once and in
   enqueue order, and only in the drain at the start of a tick: putting a
   command on the queue changes no scheduler state, and a tick drains the
   queue, then runs, also when the program is not running. *)
C35_CommandsDrainedInOrderAtTick ==
    [][/\ Ticked
          => /\ command_queue' = << >>
             /\ SchedulerStateIs(
                    UpdateAfterCommands(DrainInOrder(World, command_queue, wall'), wall'))
       /\ (~Ticked /\ command_queue' # command_queue)
          => /\ \E command \in Commands :
                    command_queue' = Append(command_queue, command)
             /\ SchedulerStateIs(World)]_vars

\* The first tick of the program that waits for its manual start drained
\* start_program and the trigger of G from one queue: the program runs, G
\* waits for its manual start and V was started by the same tick.
C35_Witness ==
    /\ auto_start /\ program.startTrigger = "manual"
    /\ wall = 1
    /\ is_running
    /\ status[StepObj("G")] = "WAITING_FOR_MANUAL"
    /\ status[StepObj("V")] = "RUNNING"

\* The entries of self.steps whose object belongs to a track.
ScheduledOf(track) ==
    { i \in DOMAIN Cfg.steps : Objs[Cfg.steps[i].obj].track_id = track.trackId }

\* The entry of self.steps for a step document of a track in a batch.
BatchInstance(track, k, batch_index) ==
    { i \in DOMAIN Cfg.steps :
        Cfg.steps[i].key = track.steps[k].stepId \o BatchSuffix(track, batch_index) }

(* C37: for a track with batch_size N > 1 and k steps the scheduler holds
   exactly N*k step instances of the track, one per step and batch and none
   under the un-suffixed step id, and the afterStep reference of the batch-i
   instance of a step to a step of the same track names the batch-i instance
   of that step. *)
C37_BatchInstances ==
    \A t \in DOMAIN program.tracks :
        LET track == program.tracks[t]
        IN track.batch_size > 1 =>
            /\ Cardinality(ScheduledOf(track)) = track.batch_size * Len(track.steps)
            /\ \A k \in DOMAIN track.steps :
                    /\ track.steps[k].stepId \notin StepKeys
                    /\ \A b \in 0..(track.batch_size - 1) :
                        /\ Cardinality(BatchInstance(track, k, b)) = 1
                        /\ \A i \in BatchInstance(track, k, b) :
                            LET o == Objs[Cfg.steps[i].obj]
                            IN ( /\ o.start_trigger # None
                                 /\ track.steps[k].startTrigger.type = "afterStep"
                                 /\ \E j \in DOMAIN track.steps :
                                        track.steps[j].stepId
                                            = track.steps[k].startTrigger.stepId )
                               => Val(o.start_trigger).stepId
                                    = track.steps[k].startTrigger.stepId
                                        \o BatchSuffix(track, b)

(* C38: whenever no step is Running, every task usage counter and every
   actor-type occupancy counter is 0: admissions, completions and aborts
   leave no reservation behind. *)
C38_NoReservationWithoutRunningStep ==
    (\A i \in DOMAIN Objs : status[i] # "RUNNING")
    => /\ \A t \in DOMAIN resource_usage : resource_usage[t] = 0
       /\ \A a \in DOMAIN actor_usage_by_type : actor_usage_by_type[a] = 0

Terminal(st) == st \in { "COMPLETED", "ABORTED" }

\* The update() of this step admitted the step: it was Running inside the
\* tick although no state between two ticks shows it.
AdmittedInTick(i) ==
    /\ Ticked
    /\ \E k \in DOMAIN attempts' :
            attempts'[k].obj = i /\ attempts'[k].status_after = "RUNNING"

(* C39: step status only moves forward: a step becomes Running only from
   Pending or WaitingForManual, becomes Completed or Aborted only from
   Running, and once it is Completed or Aborted its status, its start and end
   times and its recorded charge never change again; the usage counters
   change only in a step that changes the status of some step. *)
C39_StatusOnlyMovesForward ==
    [][/\ \A i \in DOMAIN Objs :
            /\ (status'[i] = "RUNNING" /\ status[i] # "RUNNING")
                    => status[i] \in { "PENDING", "WAITING_FOR_MANUAL" }
            /\ (Terminal(status'[i]) /\ status'[i] # status[i])
                    => \/ status[i] = "RUNNING"
                       \/ status[i] = "PENDING" /\ AdmittedInTick(i)
            /\ Terminal(status[i])
                    => /\ status'[i] = status[i]
                       /\ start_time'[i] = start_time[i]
                       /\ end_time'[i] = end_time[i]
                       /\ charged'[i] = charged[i]
       /\ status' = status
            => /\ resource_usage' = resource_usage
               /\ actor_usage_by_type' = actor_usage_by_type]_vars

\* A step was aborted and another completed in earlier ticks, a further tick
\* has run with an abort command for the aborted step on the queue, and a
\* third step is Running.
C39_Witness ==
    /\ \E i, j, k \in LiveSet :
        /\ status[i] = "ABORTED" /\ Val(end_time[i]) < current_time
        /\ status[j] = "COMPLETED" /\ Val(end_time[j]) < current_time
        /\ status[k] = "RUNNING"
    /\ command_queue # << >>
    /\ Head(command_queue).kind = "abort"
    /\ Head(command_queue).step_id \in StepKeys
    /\ Terminal(status[StepObj(Head(command_queue).step_id)])

(* C40: the validator's computation of the symbolic start times, and with
   it the overlap check of the tracks, ends with a result for every
   program, also when the afterStep references form a cycle: a step that
   refers to itself, or two steps that refer to each other. *)
C40_StartTimeComputationReturns ==
    logic_errors # None => ~Val(logic_errors).raised

====
